---- MODULE Spec2Model ----
(***************************************************************************)
(* Request/response correlation of the windsurf-auto-mcp tool servers:     *)
(* the stdio MCP server (assets/mcp-server/index.js), its later revision,  *)
(* and the HTTP server of the extension (serverManager.ts) with the UI     *)
(* providers that relay the user's answers.                                *)
(***************************************************************************)
EXTENDS Integers, Sequences, FiniteSets, TLC

\* ---------------------------------------------------------------- bounds
\* Number of JSON-RPC requests that arrive in one run.
MaxCalls == 2
\* Number of http.createServer() calls in one run.
MaxServers == 3
\* Number of showWindowsPopup calls in one run.
MaxDialogs == 2
\* set_pending_command requests
MaxSets == 2
\* save_command_history requests
MaxSaves == 102

\* ------------------------------------------------------ program constants
\* setTimeout(..., 30000) in callVSCodeCommand.
TIMEOUT == 30000
\* `if (commandHistory.length > 100)`
HISTORY_CAP == 100
\* `const { limit = 10, filter } = args`
DEFAULT_LIMIT == 10

\* The server variants of the repository.
\*   "stdio"  : assets/mcp-server/index.js
\*   "stdio2" : the later revision of the stdio server (record_cascade_command, ...)
\*   "panel"  : serverManager.ts wired to SplitPanelProvider
\*   "chat"   : serverManager.ts wired to ChatProvider
\*   "ext"    : the HTTP server of extension.ts (its dispatcher and its
\*              listener; its dialogs are those of sidebarProvider.ts and are
\*              not part of this model)
Variants == {"stdio", "stdio2", "panel", "chat"}
StdioVariants == {"stdio", "stdio2"}
HttpVariants == {"panel", "chat"}
Dispatchers == Variants \cup {"ext"}

Calls == 1..MaxCalls
\* A handler awaits callVSCodeCommand at most twice (handleWindsurfAutoMcp);
\* a waiter is the pair <<call, ordinal of the await>>.
Stages == {1, 2}
Waiters == Calls \X Stages
Dialogs == 1..MaxDialogs

\* Command texts a caller may pass to record_cascade_command / optimize_command.
Commands == {"cmdA", "cmdB"}

\* ------------------------------------------------------------- JS values
NullV == [t |-> "null", b |-> FALSE, s |-> "", c |-> FALSE, ni |-> "", i |-> ""]
StrV(str) == [t |-> "str", b |-> FALSE, s |-> str, c |-> FALSE, ni |-> "", i |-> ""]
BoolV(bool) == [t |-> "bool", b |-> bool, s |-> "", c |-> FALSE, ni |-> "", i |-> ""]
\* {continue: cont, newInstruction: instr}
ContV(cont, instr) == [t |-> "obj", b |-> FALSE, s |-> "", c |-> cont, ni |-> instr, i |-> ""]
\* {continue: cont, instruction: instr}
InstrV(cont, instr) == [t |-> "obj", b |-> FALSE, s |-> "", c |-> cont, ni |-> "", i |-> instr]

\* JavaScript truthiness of a value.
Truthy(v) ==
    CASE v.t = "null" -> FALSE
      [] v.t = "str" -> v.s # ""
      [] v.t = "bool" -> v.b
      [] OTHER -> TRUE

\* `result && result.continue`
WantsContinue(v) == Truthy(v) /\ v.t = "obj" /\ v.c

\* `x.newInstruction && x.newInstruction.trim()`: the texts of the model hold
\* no surrounding blanks except the all-blank text " ".
Trim(str) == IF str = " " THEN "" ELSE str
HasInstruction(v) == v.t = "obj" /\ v.ni # "" /\ Trim(v.ni) # ""

\* Answers the collaborator may send for an input dialog / a continue dialog.
InputAnswers == {NullV, StrV("V")}
ContinueAnswers == {NullV, ContV(FALSE, ""), ContV(TRUE, ""), ContV(TRUE, "next step")}

\* ---------------------------------------------------------- correlation ids
\* `${prefix}_${Date.now()}` and `${prefix}_${Date.now()}_${random}`; r = 0 when
\* the id has no random part.
TimeId(prefix, t) == [p |-> prefix, t |-> t, r |-> 0]
RandId(prefix, t, r) == [p |-> prefix, t |-> t, r |-> r]
\* An id that is the raw first argument (a command text).
RawId(text) == [p |-> text, t |-> 0 - 1, r |-> 0]
\* An id no waiter was ever stored under.
UnknownId == [p |-> "unknown", t |-> 0 - 1, r |-> 0]

\* Math.random().toString(36).substr(2, 9): one draw per call; draws of
\* different calls are taken to differ (9 base-36 digits).
Random(c) == c

\* ------------------------------------------------------------------ Map
\* A JS Map as the sequence of its <<key, value>> entries in insertion order.
MapHas(m, k) == \E i \in 1..Len(m) : m[i][1] = k
MapGet(m, k) == m[CHOOSE i \in 1..Len(m) : m[i][1] = k][2]
MapSet(m, k, v) ==
    IF MapHas(m, k)
    THEN [i \in 1..Len(m) |-> IF m[i][1] = k THEN <<k, v>> ELSE m[i]]
    ELSE Append(m, <<k, v>>)
MapDelete(m, k) == SelectSeq(m, LAMBDA e : e[1] # k)
MapKeys(m) == {m[i][1] : i \in 1..Len(m)}

VARIABLES
    variant,          \* which server is running
    client,           \* what the client sends: "agent" (tool calls) or "protocol"
                      \* (the JSON-RPC methods, with and without an id)
    now,              \* Date.now()
    nextCall,         \* requests arrived so far are the calls 1..nextCall
    req,              \* req[c]: the request of call c
    pc,               \* pc[c]: where the handler of call c is
    pendingRequests,  \* the pending-waiter table: requestId -> waiter
    waiter,           \* waiter[w]: the promise of a callVSCodeCommand / handleAsk*
    timers,           \* scheduled setTimeout callbacks, in the order they were set
    popup,            \* popup[c]: the kind of local popup call c is waiting on
    stdout,           \* the line written last to the RPC response stream
    responses,        \* responses[c]: how many lines were written in answer to call c
    stderr,           \* the out-of-band notification stream
    uiSlot,           \* the request the UI provider holds (_currentRequestId / _pendingRequest)
    last,             \* the broker entry point that ran in the last step
    trial,            \* an answer and the result texts the handlers make of it
    exited,           \* the stdio server's process has exited
    mcpServer,        \* `mcpServer` of the HTTP servers: a server object, 0 for null
    currentPort,      \* `currentPort` of the HTTP servers
    servers,          \* servers[s]: what became of the s-th http.createServer() object
    taken,            \* the ports other programs listen on
    restarts,         \* pending setTimeout(startServer, 1000) of restartServer
    files,            \* the temporary directory: the result files that exist
    dialogs,          \* dialogs[d]: the d-th showWindowsPopup call
    probe,            \* a tool name and what registry and router make of it
    pendingCommand,   \* `let pendingCommand = null` of the later stdio revision
    lastUserCommand,  \* `let lastUserCommand = null`
    auto,             \* auto[c]: where handleWindsurfAutoMcp is for call c, what it
                      \* recorded to history and what it returned
    fetched,          \* the pending commands get_pending_command has returned
    commandHistory,   \* `let commandHistory = []`: the saved entries, oldest first
    saved,            \* how many entries were saved so far
    got,              \* the last get_command_history: its limit and its entries
    extension         \* extension.ts: pendingRequests, dialogPanel,
                      \* currentDialogRequestId and the results of its waiters

\* The state of the servers.
server == <<variant, client, now, nextCall, req, pc, pendingRequests, waiter,
            timers, popup, stdout, responses, stderr, uiSlot, last>>

\* The process and the HTTP listener.
host == <<exited, mcpServer, currentPort, servers, taken, restarts>>
\* The Windows dialog back-end.
desk == <<files, dialogs>>

\* The module-level state of the tool handlers.
globals == <<pendingCommand, lastUserCommand, auto, fetched, commandHistory, saved, got,
             extension>>

vars == <<server, trial, host, desk, probe, globals>>

\* ------------------------------------------------------------- requests
\* hasId: the request carries an id (the id of call c is c). line: what
\* JSON.parse makes of the input line, a request object unless said otherwise.
NoReq == [method |-> "none", tool |-> "none", type |-> "none", cmd |-> "none", target |-> 0,
          hasId |-> TRUE, line |-> "request"]
ListReq == [NoReq EXCEPT !.method = "tools/list"]
InitializeReq == [NoReq EXCEPT !.method = "initialize"]
InitializedReq == [NoReq EXCEPT !.method = "initialized"]
CallReq(tool, type, cmd) ==
    [NoReq EXCEPT !.method = "tools/call", !.tool = tool, !.type = type, !.cmd = cmd]
\* The same request sent without an id.
Notification(r) == [r EXCEPT !.hasId = FALSE]
\* A method no dispatcher has a case for.
UnknownMethodReq == [NoReq EXCEPT !.method = "resources/list"]
\* A line that is no request: text JSON.parse refuses ("not json"), or the
\* JSON text null, which cannot be destructured.
MalformedLine(kind) == [NoReq EXCEPT !.line = kind, !.hasId = FALSE]
\* notifications/cancelled naming the JSON-RPC id of an earlier call that is
\* still in progress.
CancelReq(target) ==
    [NoReq EXCEPT !.method = "notifications/cancelled", !.target = target]

AskUserReqs == {CallReq("ask_user", ty, "none") : ty \in {"input", "confirm", "info"}}
AskContinueReq == CallReq("ask_continue", "none", "none")

\* The requests an agent may send to each variant as its c-th request.
AgentRequests(v, c) ==
    {ListReq} \cup {CancelReq(t) : t \in {d \in 1..(c - 1) : pc[d] \in {"waiting", "popup"}}}
      \cup (CASE v = "stdio" -> AskUserReqs \cup {AskContinueReq}
              [] v = "stdio2" ->
                    {CallReq("ask_user", "input", "none"),
                     CallReq("optimize_command", "none", "cmdA")}
                      \cup {CallReq("record_cascade_command", "none", cmd) : cmd \in Commands}
              [] OTHER -> {CallReq("ask_user", "input", "none"), AskContinueReq})

\* The protocol traffic: every method the dispatchers know, one tool call
\* that waits, each with an id and without one.
ProtocolRequests(c) ==
    LET withId == {InitializeReq, InitializedReq, ListReq, CallReq("ask_user", "input", "none")}
                    \cup {CancelReq(t) : t \in {d \in 1..(c - 1) : pc[d] \in {"waiting", "popup"}}}
    IN withId \cup {Notification(r) : r \in withId}

\* Faulty traffic: an unknown method and an unregistered tool, with an id and
\* without one, tools/call without params, lines that are no requests, and
\* the tool calls whose handlers throw; with them tools/list, notify and (for
\* the servers whose dialogs are modelled) one call that waits.
FaultRequests(v, c) ==
    {ListReq, UnknownMethodReq, Notification(UnknownMethodReq),
     CallReq("no_such_tool", "none", "none"),
     Notification(CallReq("no_such_tool", "none", "none")),
     CallReq("none", "none", "none"), CallReq("notify", "none", "none"),
     MalformedLine("not json"), MalformedLine("null")}
      \cup (IF v = "ext" THEN {} ELSE {CallReq("ask_user", "input", "none")})
      \cup (IF v = "stdio2"
            THEN {CallReq("set_pending_command", "none", "none"),
                  CallReq("record_cascade_command", "none", "cmdA")}
            ELSE {})

\* The requests a client may send to variant v as its c-th request.
RequestsOf(v, c) ==
    CASE client = "agent" -> AgentRequests(v, c)
      [] client = "protocol" -> ProtocolRequests(c)
      [] OTHER -> FaultRequests(v, c)

\* ------------------------------------------------------------- responses
\* A response line; id is NoId when JSON.stringify leaves out an undefined id,
\* NullId when the dispatcher answers with `id: null`.
NoId == 0
NullId == 0 - 1
Result(id, text) == [id |-> id, kind |-> "result", code |-> 0, text |-> text]
Error(id, code, text) == [id |-> id, kind |-> "error", code |-> code, text |-> text]
NoLine == [id |-> NoId, kind |-> "none", code |-> 0, text |-> <<>>]

\* The states of a settled promise.
Settled == {"fulfilled", "rejected"}

NoWaiter == [state |-> "none", id |-> UnknownId, createdAt |-> 0, command |-> "none",
             resumed |-> 0]

\* The broker entry point that ran in the last step: "resolve" (hit: the id was
\* in the table, w: the waiter stored under it, v: the text passed, "" when
\* the value is no text, for: the waiter whose dialog the value was given
\* in), "timer" (w: the waiter whose
\* timeout ran), "cancel" (w: the waiter of the cancelled call) or "other".
Other == [op |-> "other", hit |-> FALSE, w |-> <<0, 0>>, v |-> "", for |-> <<0, 0>>]
Timer(w) == [Other EXCEPT !.op = "timer", !.w = w]
Cancel(w) == [Other EXCEPT !.op = "cancel", !.w = w]

\* The UI provider's single slot; type is the kind of dialog it shows.
NoSlot == [id |-> UnknownId, type |-> "none"]

\* A trial takes one answer to a dialog of one kind and records, for each
\* function of the repository that turns such an answer into a result text,
\* the text it makes; NotApplied where the function has not run.
NotApplied == <<>>
ContinueProducers ==
    {"handleAskContinue", "handleAskContinue/fallback", "handleAskContinue/exhausted",
     "handleWindsurfAutoMcp", "handleWindsurfAutoMcp/fallback",
     "handleWindsurfAutoMcp/exhausted",
     "handleWebviewResponse", "handleChatResponse", "extension/handleAskContinue"}
AskUserProducers ==
    {"handleAskUser", "handleAskUser/fallback", "handleWebviewResponse",
     "handleChatResponse", "extension/handleAskUser"}
\* The pages that post the answer of a continue dialog, followed by
\* handleWebviewResponse of serverManager.ts.
PageProducers == {"continueWithInstruction", "handleStartTask"}
Producers == ContinueProducers \cup AskUserProducers \cup PageProducers
NoTrial == [kind |-> "none", answer |-> NullV, out |-> [e \in Producers |-> NotApplied]]

\* ------------------------------------------------- process and HTTP listener
\* `let currentPort = 3456`
PORT == 3456
\* An http.Server object: "none" before http.createServer() made it,
\* "binding" while its listen call has not ended, then "listening" or
\* "failed" (EADDRINUSE), "closed" after close().
NoServer == [state |-> "none", port |-> 0]
Servers == 1..MaxServers

\* The server runs: the stdio process is alive, the HTTP server listens on
\* the configured port.
HostUp ==
    /\ exited = FALSE
    /\ mcpServer = 1
    /\ currentPort = PORT
    /\ servers = [s \in Servers |-> IF s = 1 THEN [state |-> "listening", port |-> PORT]
                                    ELSE NoServer]
    /\ taken = {}
    /\ restarts = 0

\* The files mcp_result_<Date.now()>.txt of os.tmpdir(), by their time stamp.
FileNames == 0..MaxDialogs
\* No local dialog is open and no tool name is being looked up. A dialog of
\* showWindowsPopup: state "open" while powershell runs, "written" once the
\* script has written its result file, "closed" after the close or error
\* event; settled is what the promise was resolved with, "no" before.
NoDialog == [state |-> "none", type |-> "none", file |-> 0, answer |-> "none", settled |-> "no"]
NoProbe == [name |-> "none", listed |-> <<>>, routed |-> "unknown"]
\* The n-th command set with set_pending_command; n = 0 for a text that was
\* never the pending command (the command argument, the last user command,
\* the completion message), and for null.
Command(cmd, n) == [cmd |-> cmd, n |-> n]
NoCommand == Command("none", 0)
\* handleWindsurfAutoMcp has not been called; get_command_history neither.
NoAuto == [at |-> "none", recorded |-> NoCommand, returned |-> NoCommand]
NoGot == [limit |-> 0 - 1, saved |-> 0, entries |-> <<>>]
\* `dialogPanel = null`, and a waiter that was not resolved.
NoPanel == [requestId |-> 0, type |-> "none"]
NoResult == [kind |-> "none", input |-> "", text |-> <<>>]
DeskIdle ==
    /\ files = [f \in FileNames |-> "none"]
    /\ dialogs = [d \in Dialogs |-> NoDialog]
    /\ probe = NoProbe
    /\ pendingCommand = NoCommand
    /\ lastUserCommand = "none"
    /\ auto = [c \in Calls |-> NoAuto]
    /\ fetched = <<>>
    /\ commandHistory = <<>>
    /\ saved = 0
    /\ got = NoGot
    /\ extension = [pendingRequests |-> <<>>, dialogPanel |-> NoPanel,
                    currentDialogRequestId |-> 0, results |-> [c \in Calls |-> NoResult]]

Init ==
    /\ trial = NoTrial
    /\ HostUp
    /\ DeskIdle
    /\ variant \in Variants
    /\ client = "agent"
    /\ now = 0
    /\ nextCall = 0
    /\ req = [c \in Calls |-> NoReq]
    /\ pc = [c \in Calls |-> "none"]
    /\ pendingRequests = <<>>
    /\ waiter = [w \in Waiters |-> NoWaiter]
    /\ timers = <<>>
    /\ popup = [c \in Calls |-> "none"]
    /\ stdout = NoLine
    /\ responses = [c \in Calls |-> 0]
    /\ stderr = <<>>
    /\ uiSlot = NoSlot
    /\ last = Other


\* ------------------------------------------------------------ result texts
\* A text is the sequence of its parts; the fixed phrases of the source are
\* written as one ASCII part each.
TextOf(v) ==
    CASE v.t = "str" -> v.s
      [] v.t = "bool" -> IF v.b THEN "true" ELSE "false"
      [] v.t = "null" -> "null"
      [] OTHER -> "[object Object]"

\* `result ? 'true' : 'false'`
ConfirmText(v) == IF Truthy(v) THEN <<"true">> ELSE <<"false">>
\* `result || ''`
InputText(v) == IF Truthy(v) THEN <<TextOf(v)>> ELSE <<"">>

\* A continue mapping that fails open: no answer counts as "continue".
ContinueText_failopen(v) ==
    IF v.t = "null" \/ WantsContinue(v)
    THEN IF HasInstruction(v)
         THEN <<"RESULT: should_continue=true", "NEW INSTRUCTION: ", v.ni, "EXECUTE THEN ask_continue">>
         ELSE <<"RESULT: should_continue=true", "WAIT FOR NEXT INSTRUCTION THEN ask_continue">>
    ELSE <<"RESULT: should_continue=false", "USER ENDED">>

\* handleAskContinue of index.js, primary path.
ContinueText(v) ==
    IF WantsContinue(v)
    THEN IF HasInstruction(v)
         THEN <<"RESULT: should_continue=true", "NEW INSTRUCTION: ", v.ni, "EXECUTE THEN ask_continue">>
         ELSE <<"RESULT: should_continue=true", "WAIT FOR NEXT INSTRUCTION THEN ask_continue">>
    ELSE <<"RESULT: should_continue=false", "USER ENDED">>

\* continueWithInstruction() of the continue page of SplitPanelProvider, with
\* box the content of the instruction box:
\* `newInstruction: instruction || '...'` after `.value.trim()`.
continueWithInstruction(box) ==
    ContV(TRUE, IF Trim(box) # "" THEN Trim(box) ELSE "USER CHOSE CONTINUE")

\* A fallback that takes the instruction popup for the decision: closing the
\* confirm popup does not end the conversation.
FallbackContinueText_failopen(confirmed, instr) ==
    IF Truthy(instr) /\ Trim(instr.s) # ""
    THEN <<"RESULT: should_continue=true", "NEW INSTRUCTION: ", instr.s, "EXECUTE THEN ask_continue">>
    ELSE <<"RESULT: should_continue=true", "WAIT FOR NEXT INSTRUCTION">>

\* handleAskContinue of index.js, fallback path: `should_continue=${result}`.
FallbackContinueText(confirmed, instr) ==
    IF confirmed
    THEN IF Truthy(instr) /\ Trim(instr.s) # ""
         THEN <<"RESULT: should_continue=true", "NEW INSTRUCTION: ", instr.s, "EXECUTE THEN ask_continue">>
         ELSE <<"RESULT: should_continue=true", "WAIT FOR NEXT INSTRUCTION">>
    ELSE <<"RESULT: should_continue=false", "USER ENDED">>

\* handleAskContinue of index.js, catch (fallbackError).
ExhaustedContinueText == <<"RESULT: should_continue=false", "CANNOT SHOW THE DIALOG">>

\* error.message of what showLocalPopup throws. It builds the dialog script
\* with title.replace / message.replace and starts it with spawn, inside the
\* executor of the promise it returns: a message that is no string, or a text
\* with a NUL character (which spawn refuses), makes the returned promise
\* reject.
PopupError == <<"POPUP THREW">>

\* ------------------------------------------------------- dispatcher output
\* A dispatcher that makes the response and does not write it.
write_unanswered(c, line) == UNCHANGED <<stdout, responses>>

\* sendResponse / sendError (res.end in serverManager.ts): one line on the
\* response stream.
write(c, line) ==
    /\ stdout' = line
    /\ responses' = [responses EXCEPT ![c] = @ + 1]

\* The request of call c, in the step it arrives and afterwards.
RequestOf(c) == IF req[c] = NoReq THEN req'[c] ELSE req[c]
\* `const { method, id, params } = request`
IdOf(c) == IF RequestOf(c).hasId THEN c ELSE NoId

sendResponse(c, text) == write(c, Result(IdOf(c), text))
sendError(c, code, text) == write(c, Error(IdOf(c), code, text))
\* A catch that swallows the error.
sendErrorIfId_silent(c, code, text) == UNCHANGED <<stdout, responses>>

\* `if (id !== undefined) sendError(id, code, message)` in handleRequest of the
\* stdio servers.
sendErrorIfId(c, code, text) ==
    IF RequestOf(c).hasId THEN sendError(c, code, text) ELSE UNCHANGED <<stdout, responses>>

\* ------------------------------------------------------------ the handlers
\* The id under which the handler of call c stores its waiter.
RequestIdOf(c) ==
    LET r == req'[c] IN
    CASE r.tool = "ask_user" /\ variant \in StdioVariants ->
            IF r.type = "info" THEN TimeId("info", now) ELSE TimeId("input", now)
      [] r.tool = "ask_user" -> RandId("req", now, Random(c))
      [] r.tool = "ask_continue" -> RandId("continue", now, Random(c))
      [] r.tool = "optimize_command" -> TimeId("opt", now)
      [] r.tool = "record_cascade_command" -> RawId(r.cmd)
      [] OTHER -> UnknownId

\* The collaborator command the handler of call c asks for.
CommandOf(c) ==
    LET r == req'[c] IN
    CASE r.tool = "ask_user" -> "mcpService.showInputDialog"
      [] r.tool = "ask_continue" -> "mcpService.showContinueDialog"
      [] r.tool = "optimize_command" -> "mcpService.optimizeCommand"
      [] r.tool = "record_cascade_command" -> "mcpService.recordCascadeCommand"
      [] OTHER -> "none"

\* What the handler of call c does when its await of callVSCodeCommand ends
\* (how = "fulfilled" with value v, or "rejected" by the timeout): the rest of
\* handleAskUser / handleAskContinue / handleRecordCascadeCommand /
\* handleOptimizeCommand up to the next await, and handleRequest's
\* sendResponse / catch.
StdioContinuation(c, how, v) ==
    LET r == req[c] IN
    CASE r.tool = "ask_user" /\ how = "fulfilled" ->
            /\ sendResponse(c, IF r.type = "confirm" THEN ConfirmText(v)
                               ELSE IF r.type = "info" THEN <<"acknowledged">>
                               ELSE InputText(v))
            /\ pc' = [pc EXCEPT ![c] = "done"]
            /\ UNCHANGED popup
      [] r.tool = "ask_user" /\ how = "rejected" ->
            \* catch (error): showLocalPopup(title, message, ...) is awaited
            \* outside any try; when it throws, the catch of handleRequest
            \* answers with sendError(id, -32603, error.message).
            \/ /\ popup' = [popup EXCEPT ![c] =
                               IF r.type = "confirm" THEN "confirm"
                               ELSE IF r.type = "input" THEN "input" ELSE "ack"]
               /\ pc' = [pc EXCEPT ![c] = "popup"]
               /\ UNCHANGED <<stdout, responses>>
            \/ /\ sendErrorIfId(c, 0 - 32603, PopupError)
               /\ pc' = [pc EXCEPT ![c] = "done"]
               /\ UNCHANGED popup
      [] r.tool = "ask_continue" /\ how = "fulfilled" ->
            /\ sendResponse(c, ContinueText(v))
            /\ pc' = [pc EXCEPT ![c] = "done"]
            /\ UNCHANGED popup
      [] r.tool = "ask_continue" /\ how = "rejected" ->
            \* catch (error): the popups are awaited inside a second try,
            \* whose catch (fallbackError) returns the closing text.
            \/ /\ popup' = [popup EXCEPT ![c] = "continue"]
               /\ pc' = [pc EXCEPT ![c] = "popup"]
               /\ UNCHANGED <<stdout, responses>>
            \/ /\ sendResponse(c, ExhaustedContinueText)
               /\ pc' = [pc EXCEPT ![c] = "done"]
               /\ UNCHANGED popup
      [] r.tool = "record_cascade_command" /\ how = "fulfilled" ->
            /\ sendResponse(c, <<"RECORDED: ", r.cmd>>)
            /\ pc' = [pc EXCEPT ![c] = "done"]
            /\ UNCHANGED popup
      [] r.tool = "record_cascade_command" /\ how = "rejected" ->
            /\ sendErrorIfId(c, 0 - 32603, <<"RECORD FAILED: ", "VSCode command timeout">>)
            /\ pc' = [pc EXCEPT ![c] = "done"]
            /\ UNCHANGED popup
      [] r.tool = "optimize_command" ->
            /\ sendResponse(c, IF how = "fulfilled" /\ Truthy(v)
                               THEN <<TextOf(v)>> ELSE <<"OPTIMIZED: ", r.cmd>>)
            /\ pc' = [pc EXCEPT ![c] = "done"]
            /\ UNCHANGED popup
      [] OTHER -> UNCHANGED <<pc, popup, stdout, responses>>

\* serverManager.ts: the promise of handleAskUser / handleAskContinue is
\* resolved with the finished tool result; handleToolCall returns it and
\* handleJSONRPC writes the response.
HttpContinuation(c, text) ==
    /\ sendResponse(c, text)
    /\ pc' = [pc EXCEPT ![c] = "done"]
    /\ UNCHANGED popup

\* A JS promise settles once: the first call of resolve or reject resumes the
\* awaiting handler, later calls are ignored.
SettlePromise(w, how, v) ==
    IF waiter[w].state = "pending"
    THEN /\ waiter' = [waiter EXCEPT ![w].state = how, ![w].resumed = @ + 1]
         /\ IF variant \in StdioVariants
            THEN StdioContinuation(w[1], how, v)
            ELSE HttpContinuation(w[1], v)
    ELSE UNCHANGED <<waiter, pc, popup, stdout, responses>>

\* A callVSCodeCommand that writes its notification with console.log.
callVSCodeCommand_stdout(c, s, command, requestId) ==
    /\ pendingRequests' = MapSet(pendingRequests, requestId, <<c, s>>)
    /\ stdout' = [id |-> NoId, kind |-> "notification", code |-> 0, text |-> <<command>>]
    /\ timers' = Append(timers, <<c, s>>)
    /\ waiter' = [waiter EXCEPT ![<<c, s>>] =
                     [NoWaiter EXCEPT !.state = "pending", !.id = requestId,
                                      !.createdAt = now, !.command = command]]
    /\ UNCHANGED <<stderr, responses>>

\* callVSCodeCommand(command, [requestId, ...]) for the s-th await of call c.
callVSCodeCommand(c, s, command, requestId) ==
    /\ pendingRequests' = MapSet(pendingRequests, requestId, <<c, s>>)
    /\ stderr' = Append(stderr, [command |-> command, requestId |-> requestId])
    /\ timers' = Append(timers, <<c, s>>)
    /\ waiter' = [waiter EXCEPT ![<<c, s>>] =
                     [NoWaiter EXCEPT !.state = "pending", !.id = requestId,
                                      !.createdAt = now, !.command = command]]
    /\ UNCHANGED <<stdout, responses>>

\* A resolve that, for an id it does not find, settles the oldest stored waiter.
handleVSCodeResponse_oldest(requestId, result) ==
    IF MapHas(pendingRequests, requestId)
    THEN /\ pendingRequests' = MapDelete(pendingRequests, requestId)
         /\ SettlePromise(MapGet(pendingRequests, requestId), "fulfilled", result)
    ELSE IF pendingRequests # <<>>
    THEN /\ pendingRequests' = Tail(pendingRequests)
         /\ SettlePromise(Head(pendingRequests)[2], "fulfilled", result)
    ELSE UNCHANGED <<pendingRequests, waiter, pc, popup, stdout, responses>>

\* handleVSCodeResponse(requestId, result)
handleVSCodeResponse(requestId, result) ==
    IF MapHas(pendingRequests, requestId)
    THEN /\ pendingRequests' = MapDelete(pendingRequests, requestId)
         /\ SettlePromise(MapGet(pendingRequests, requestId), "fulfilled", result)
    ELSE UNCHANGED <<pendingRequests, waiter, pc, popup, stdout, responses>>

\* The setTimeout callback of callVSCodeCommand for waiter w.
timeoutCallback(w) ==
    IF MapHas(pendingRequests, waiter[w].id)
    THEN /\ pendingRequests' = MapDelete(pendingRequests, waiter[w].id)
         /\ SettlePromise(w, "rejected", NullV)
    ELSE UNCHANGED <<pendingRequests, waiter, pc, popup, stdout, responses>>


\* ------------------------------------------------- serverManager.ts broker
\* `value || '...'` of handleWebviewResponse.
WebviewInputText(v) == IF Truthy(v) THEN <<TextOf(v)>> ELSE <<"USER CANCELLED INPUT">>

\* handleWebviewResponse(requestId, value) of serverManager.ts
handleWebviewResponse(requestId, value) ==
    IF MapHas(pendingRequests, requestId)
    THEN /\ pendingRequests' = MapDelete(pendingRequests, requestId)
         /\ SettlePromise(MapGet(pendingRequests, requestId), "fulfilled",
                          IF requestId.p = "continue"
                          THEN ContinueText(value) ELSE WebviewInputText(value))
    ELSE UNCHANGED <<pendingRequests, waiter, pc, popup, stdout, responses>>

\* userResponse.toLowerCase().includes(...) over the texts of the model.
UserTexts == {"V", "yes"}
Affirmative(text) == text \in {"yes"}

\* The result handleChatResponse builds from the user's text.
ChatResult(userResponse, type) ==
    CASE type = "input" -> <<userResponse>>
      [] type = "confirm" -> IF Affirmative(userResponse) THEN <<"confirmed">> ELSE <<"cancelled">>
      [] OTHER -> IF Affirmative(userResponse)
                  THEN <<"{\"should_continue\":true}">> ELSE <<"{\"should_continue\":false}">>

\* handleChatResponse(requestId, userResponse, type) of serverManager.ts
handleChatResponse(requestId, userResponse, type) ==
    IF MapHas(pendingRequests, requestId)
    THEN /\ pendingRequests' = MapDelete(pendingRequests, requestId)
         /\ SettlePromise(MapGet(pendingRequests, requestId), "fulfilled",
                          ChatResult(userResponse, type))
    ELSE UNCHANGED <<pendingRequests, waiter, pc, popup, stdout, responses>>

\* SplitPanelProvider.showInputDialog / showContinueDialog and
\* ChatProvider.showUserRequest: the provider remembers one request.
showDialog(requestId, type) == uiSlot' = [id |-> requestId, type |-> type]

\* handleAskUser / handleAskContinue of serverManager.ts: the waiter is stored
\* with no timeout and the UI command is executed.
httpAsk(c) ==
    LET requestId == RequestIdOf(c) IN
    /\ pendingRequests' = MapSet(pendingRequests, requestId, <<c, 1>>)
    /\ waiter' = [waiter EXCEPT ![<<c, 1>>] =
                     [NoWaiter EXCEPT !.state = "pending", !.id = requestId,
                                      !.createdAt = now, !.command = CommandOf(c)]]
    /\ showDialog(requestId, IF req'[c].tool = "ask_continue" THEN "continue" ELSE "input")

\* ------------------------------------------------------------ dispatchers
\* The registry each server returns for tools/list: the names of its TOOLS
\* (MCP_TOOLS in mcpTools.ts), in the order of the array.
TOOLS(v) ==
    CASE v = "stdio" ->
            <<"ask_continue", "ask_user", "notify", "optimize_command", "save_command_history",
              "get_command_history", "update_context_summary", "get_context_summary">>
      [] v = "stdio2" ->
            <<"windsurf_auto_mcp", "ask_user", "notify", "optimize_command",
              "save_command_history", "get_command_history", "update_context_summary",
              "get_context_summary", "get_pending_command", "set_pending_command",
              "record_cascade_command">>
      [] v = "ext" -> <<"ask_user", "notify", "ask_continue">>
      [] OTHER ->
            <<"ask_user", "notify", "windsurf_auto_mcp", "get_pending_command",
              "set_pending_command", "optimize_command", "save_command_history",
              "get_command_history", "update_context_summary", "get_context_summary">>

\* The names the switch of each server's handleToolCall has a case for.
Routable(v) ==
    CASE v = "stdio2" ->
            {"windsurf_auto_mcp", "ask_user", "notify", "optimize_command",
             "save_command_history", "get_command_history", "update_context_summary",
             "get_context_summary", "get_pending_command", "set_pending_command",
             "record_cascade_command"}
      [] v = "ext" -> {"ask_user", "notify", "ask_continue"}
      [] OTHER ->
            {"ask_continue", "ask_user", "notify", "optimize_command", "save_command_history",
             "get_command_history", "update_context_summary", "get_context_summary"}

\* A router that answers an unregistered name like a tool without effect.
Thrown_lenient(v, r) ==
    IF r.tool = "none"
    THEN <<"TypeError: ", "Cannot read properties of undefined (reading 'name')">>
    ELSE <<>>

\* What `handleToolCall(params.name, params.arguments || {})` throws before
\* any await, <<>> when it throws nothing: the name of the error and then the
\* parts of its message. tool = "none" stands for a request without params.
Thrown(v, r) ==
    IF r.tool = "none"
    THEN <<"TypeError: ", "Cannot read properties of undefined (reading 'name')">>
    ELSE IF r.tool \notin Routable(v)
    THEN \* serverManager.ts and extension.ts word the message in Chinese
         <<"Error: ", "Unknown tool: ", r.tool>>
    ELSE IF v = "stdio2" /\ r.tool \in {"set_pending_command", "record_cascade_command"}
            /\ r.cmd = "none"
    THEN <<"Error: ", "Command is required">>
    ELSE <<>>

\* handleNotify asking the collaborator to show the notification.
WaitingTools_notify(v) == {"ask_user", "ask_continue", "notify"}

\* The tools whose handler awaits the collaborator's answer.
WaitingTools(v) ==
    CASE v = "stdio2" -> {"ask_user", "optimize_command", "record_cascade_command"}
      [] OTHER -> {"ask_user", "ask_continue"}

\* A line listener that answers what it cannot parse with a parse error.
dropLine_answering(c) == write(c, Error(NullId, 0 - 32700, <<"Parse error">>))

\* catch (error) of the line listener: the error is logged (when DEBUG_MCP is
\* set) and nothing is written.
dropLine(c) == UNCHANGED <<stdout, responses>>

\* A dispatcher that handles one request at a time: a line that arrives while
\* a handler is suspended is left waiting.
handleRequest_serial(c) ==
    LET r == req'[c] IN
    IF \E d \in Calls : pc[d] \in {"waiting", "popup"}
    THEN /\ pc' = [pc EXCEPT ![c] = "queued"]
         /\ last' = Other
         /\ UNCHANGED <<pendingRequests, waiter, timers, popup, stdout, responses, stderr>>
    ELSE CASE r.method \in {"initialize", "tools/list"} ->
                /\ sendResponse(c, IF r.method = "initialize" THEN <<"serverInfo">>
                                   ELSE TOOLS(variant))
                /\ pc' = [pc EXCEPT ![c] = "done"]
                /\ last' = Other
                /\ UNCHANGED <<pendingRequests, waiter, timers, popup, stderr>>
           [] r.method = "tools/call" /\ r.tool \in WaitingTools(variant) ->
                /\ callVSCodeCommand(c, 1, CommandOf(c), RequestIdOf(c))
                /\ pc' = [pc EXCEPT ![c] = "waiting"]
                /\ last' = Other
                /\ UNCHANGED popup
           [] OTHER ->
                /\ pc' = [pc EXCEPT ![c] = "done"]
                /\ last' = Other
                /\ UNCHANGED <<pendingRequests, waiter, timers, popup, stdout, responses, stderr>>

\* rl.on('line') and handleRequest(request) of the stdio servers, with
\* handleToolCall, up to the handler's first await.
handleRequest(c) ==
    LET r == req'[c]
        thrown == Thrown(variant, r)
    IN
    IF r.line # "request"
    THEN \* JSON.parse(line) throws, or handleRequest rejects when it
         \* destructures null
         /\ dropLine(c)
         /\ pc' = [pc EXCEPT ![c] = "done"]
         /\ last' = Other
         /\ UNCHANGED <<pendingRequests, waiter, timers, popup, stderr>>
    ELSE
    CASE r.method = "initialize" ->
            /\ sendResponse(c, <<"serverInfo">>)
            /\ pc' = [pc EXCEPT ![c] = "done"]
            /\ last' = Other
            /\ UNCHANGED <<pendingRequests, waiter, timers, popup, stderr>>
      [] r.method = "tools/list" ->
            /\ sendResponse(c, TOOLS(variant))
            /\ pc' = [pc EXCEPT ![c] = "done"]
            /\ last' = Other
            /\ UNCHANGED <<pendingRequests, waiter, timers, popup, stderr>>
      [] r.method = "tools/call" /\ thrown # <<>> ->
            \* catch (error): sendError(id, -32603, error.message) when there is an id
            /\ sendErrorIfId(c, 0 - 32603, Tail(thrown))
            /\ pc' = [pc EXCEPT ![c] = "done"]
            /\ last' = Other
            /\ UNCHANGED <<pendingRequests, waiter, timers, popup, stderr>>
      [] r.method = "tools/call" /\ thrown = <<>> /\ r.tool = "notify" ->
            \* handleNotify: `await showLocalPopup(title, message, 'confirm')`,
            \* which may throw as in the fallback of handleAskUser.
            /\ \/ /\ popup' = [popup EXCEPT ![c] = "notify"]
                  /\ pc' = [pc EXCEPT ![c] = "popup"]
                  /\ UNCHANGED <<stdout, responses>>
               \/ /\ sendErrorIfId(c, 0 - 32603, PopupError)
                  /\ pc' = [pc EXCEPT ![c] = "done"]
                  /\ UNCHANGED popup
            /\ last' = Other
            /\ UNCHANGED <<pendingRequests, waiter, timers, stderr>>
      [] r.method = "tools/call" /\ thrown = <<>> /\ r.tool \in WaitingTools(variant) ->
            /\ callVSCodeCommand(c, 1, CommandOf(c), RequestIdOf(c))
            /\ pc' = [pc EXCEPT ![c] = "waiting"]
            /\ last' = Other
            /\ UNCHANGED popup
      [] r.method = "tools/call" /\ thrown = <<>>
           /\ r.tool \notin WaitingTools(variant) \cup {"notify"} ->
            \* the handlers that await nothing return their result
            /\ sendResponse(c, <<"RESULT OF ", r.tool>>)
            /\ pc' = [pc EXCEPT ![c] = "done"]
            /\ last' = Other
            /\ UNCHANGED <<pendingRequests, waiter, timers, popup, stderr>>
      [] r.method \in {"initialized", "notifications/cancelled"} ->
            \* no response, nothing else
            /\ pc' = [pc EXCEPT ![c] = "done"]
            /\ last' = IF r.method = "notifications/cancelled"
                       THEN Cancel(<<r.target, 1>>) ELSE Other
            /\ UNCHANGED <<pendingRequests, waiter, timers, popup, stdout, responses, stderr>>
      [] OTHER ->
            \* default: `if (id !== undefined) sendError(id, -32601, ...)`
            /\ sendErrorIfId(c, 0 - 32601, <<"Unknown method: ", r.method>>)
            /\ pc' = [pc EXCEPT ![c] = "done"]
            /\ last' = Other
            /\ UNCHANGED <<pendingRequests, waiter, timers, popup, stderr>>

\* handleRequest and handleJSONRPC(body, res) of serverManager.ts, with
\* handleToolCall, up to the handler's first await.
handleJSONRPC(c) ==
    LET r == req'[c]
        thrown == Thrown(variant, r)
    IN
    IF r.line # "request"
    THEN \* JSON.parse(body), or request.method of null, throws before the
         \* try of handleJSONRPC: the catch of handleRequest answers 500 with
         \* `id: null`.
         /\ write(c, Error(NullId, 0 - 32603, <<"Internal error">>))
         /\ pc' = [pc EXCEPT ![c] = "done"]
         /\ last' = Other
         /\ UNCHANGED <<pendingRequests, waiter, uiSlot>>
    ELSE
    CASE r.method = "initialize" ->
            /\ sendResponse(c, <<"serverInfo">>)
            /\ pc' = [pc EXCEPT ![c] = "done"]
            /\ last' = Other
            /\ UNCHANGED <<pendingRequests, waiter, uiSlot>>
      [] r.method = "tools/list" ->
            /\ sendResponse(c, TOOLS(variant))
            /\ pc' = [pc EXCEPT ![c] = "done"]
            /\ last' = Other
            /\ UNCHANGED <<pendingRequests, waiter, uiSlot>>
      [] r.method = "tools/call" /\ thrown # <<>> ->
            \* catch (error): `Internal error: ${error}`
            /\ sendError(c, 0 - 32603, <<"Internal error: ">> \o thrown)
            /\ pc' = [pc EXCEPT ![c] = "done"]
            /\ last' = Other
            /\ UNCHANGED <<pendingRequests, waiter, uiSlot>>
      [] r.method = "tools/call" /\ thrown = <<>> /\ r.tool \in WaitingTools(variant) ->
            /\ httpAsk(c)
            /\ pc' = [pc EXCEPT ![c] = "waiting"]
            /\ last' = Other
            /\ UNCHANGED <<stdout, responses>>
      [] r.method = "tools/call" /\ thrown = <<>> /\ r.tool \notin WaitingTools(variant) ->
            \* handleNotify shows the message without awaiting it; the
            \* handlers of mcpTools.ts await nothing
            /\ sendResponse(c, IF r.tool = "notify" THEN <<"NOTIFICATION SENT">>
                               ELSE <<"RESULT OF ", r.tool>>)
            /\ pc' = [pc EXCEPT ![c] = "done"]
            /\ last' = Other
            /\ UNCHANGED <<pendingRequests, waiter, uiSlot>>
      [] OTHER ->
            \* default: Method not found
            /\ sendError(c, 0 - 32601, <<"Method not found: ", r.method>>)
            /\ pc' = [pc EXCEPT ![c] = "done"]
            /\ last' = IF r.method = "notifications/cancelled"
                       THEN Cancel(<<r.target, 1>>) ELSE Other
            /\ UNCHANGED <<pendingRequests, waiter, uiSlot>>

\* handleJSONRPC(body, res) of extension.ts with its handleToolCall, for the
\* requests that open no dialog. Its try holds JSON.parse too, and its catch
\* answers with `id: null`.
ext_handleJSONRPC(c) ==
    LET r == req'[c]
        thrown == Thrown(variant, r)
    IN
    /\ IF r.line # "request"
       THEN write(c, Error(NullId, 0 - 32603, <<"Unexpected token">>))
       ELSE
       CASE r.method = "initialize" -> sendResponse(c, <<"serverInfo">>)
         [] r.method = "tools/list" -> sendResponse(c, TOOLS(variant))
         [] r.method = "initialized" -> UNCHANGED <<stdout, responses>>
         [] r.method = "tools/call" /\ thrown # <<>> ->
               write(c, Error(NullId, 0 - 32603, Tail(thrown)))
         [] r.method = "tools/call" /\ thrown = <<>> /\ r.tool = "notify" ->
               sendResponse(c, <<"NOTIFICATION SENT">>)
         [] r.method = "tools/call" /\ thrown = <<>> /\ r.tool # "notify" -> FALSE
         [] OTHER ->
               \* default: an error when there is an id, an empty 200 otherwise
               sendErrorIfId(c, 0 - 32601, <<"Unknown method: ", r.method>>)
    /\ pc' = [pc EXCEPT ![c] = "done"]
    /\ last' = Other
    /\ UNCHANGED <<pendingRequests, waiter, uiSlot>>

\* ---------------------------------------------------------------- actions
\* A scheduled timeout has reached its deadline. The event loop runs due
\* timers first (its timers phase precedes the polling for input), so the
\* other callbacks wait while this holds.
TimerDue == timers # <<>> /\ now >= waiter[Head(timers)].createdAt + TIMEOUT

\* The clock is read by Date.now() when an id is made and by the timeouts.
\* It advances by a millisecond once the current one has been read for an id,
\* or by the timeout while a scheduled timeout is not yet due; advances that
\* nothing can observe are left out.
Tick ==
    /\ ~exited
    /\ ~TimerDue
    /\ \/ /\ \E w \in Waiters : waiter[w].state # "none" /\ waiter[w].createdAt = now
          /\ now' = now + 1
       \/ /\ \E i \in 1..Len(timers) : now < waiter[timers[i]].createdAt + TIMEOUT
          /\ now' = now + TIMEOUT
    /\ last' = Other
    /\ UNCHANGED <<host, desk, probe, globals, trial, variant, client, nextCall, req, pc, pendingRequests, waiter, timers,
                   popup, stdout, responses, stderr, uiSlot>>

\* rl.on('line', async (line) => ...): a request line arrives and the listener
\* runs handleRequest for it, whether or not earlier handlers are suspended.
ReceiveLine ==
    /\ ~exited
    /\ ~TimerDue
    /\ variant \in StdioVariants
    /\ nextCall < MaxCalls
    /\ \E r \in RequestsOf(variant, nextCall + 1) :
          req' = [req EXCEPT ![nextCall + 1] = r]
    /\ nextCall' = nextCall + 1
    /\ handleRequest(nextCall + 1)
    /\ UNCHANGED <<host, desk, probe, globals, trial, variant, client, now, uiSlot>>

\* req.on('end', ...) of the HTTP server: a request body is complete and
\* handleJSONRPC runs for it.
ReceiveHttp ==
    /\ mcpServer # 0
    /\ servers[mcpServer].state = "listening"
    /\ variant \notin StdioVariants
    /\ nextCall < MaxCalls
    /\ \E r \in RequestsOf(variant, nextCall + 1) :
          req' = [req EXCEPT ![nextCall + 1] = r]
    /\ nextCall' = nextCall + 1
    /\ IF variant = "ext" THEN ext_handleJSONRPC(nextCall + 1) ELSE handleJSONRPC(nextCall + 1)
    /\ UNCHANGED <<host, desk, probe, globals, trial, variant, client, now, timers, popup, stderr>>

\* The waiter stored under an id, <<0, 0>> when there is none.
StoredUnder(requestId) ==
    IF MapHas(pendingRequests, requestId) THEN MapGet(pendingRequests, requestId) ELSE <<0, 0>>

\* A resolve entry point is called with requestId and value v, the answer
\* given in the dialog of waiter asked (<<0, 0>> when the id finds no entry:
\* the call is dropped whatever it was for).
Resolve(requestId, v, asked) ==
    [op |-> "resolve", hit |-> MapHas(pendingRequests, requestId),
     w |-> StoredUnder(requestId), v |-> IF v.t = "str" THEN v.s ELSE "", for |-> asked]

\* The waiters whose dialog was opened under requestId: the notification of
\* each carried that id, and the answer to any of them comes back with it.
AskedUnder(requestId) ==
    IF MapHas(pendingRequests, requestId)
    THEN {w \in Waiters : waiter[w].state # "none" /\ waiter[w].id = requestId}
    ELSE {<<0, 0>>}

\* The ids of settled waiters that are no longer in the table.
RemovedIds ==
    {waiter[w].id : w \in {x \in Waiters : waiter[x].state \in Settled}} \ MapKeys(pendingRequests)

\* The ids a collaborator may answer with: the stored ones, one never stored
\* and one stored before (a resolve that finds no entry does the same for
\* every id, so one removed id stands for all of them).
KnownIds ==
    MapKeys(pendingRequests) \cup {UnknownId}
      \cup (IF RemovedIds = {} THEN {} ELSE {CHOOSE id \in RemovedIds : TRUE})

\* The answers a collaborator gives to a dialog command.
AnswersFor(requestId) ==
    IF ~MapHas(pendingRequests, requestId) THEN {NullV}
    ELSE IF waiter[MapGet(pendingRequests, requestId)].command = "mcpService.showContinueDialog"
         THEN ContinueAnswers ELSE InputAnswers

\* The collaborator calls handleVSCodeResponse.
VSCodeResponse ==
    /\ ~exited
    /\ ~TimerDue
    /\ variant \in StdioVariants
    /\ \E requestId \in KnownIds : \E v \in AnswersFor(requestId) :
          /\ handleVSCodeResponse(requestId, v)
          /\ \E asked \in AskedUnder(requestId) : last' = Resolve(requestId, v, asked)
    /\ UNCHANGED <<host, desk, probe, globals, trial, variant, client, now, nextCall, req, timers, stderr, uiSlot>>

\* The oldest scheduled timeout runs once its 30 seconds have passed (all
\* timeouts have the same delay, so they run in the order they were set).
TimerFire ==
    /\ ~exited
    /\ TimerDue
    /\ timeoutCallback(Head(timers))
    /\ timers' = Tail(timers)
    /\ last' = Timer(Head(timers))
    /\ UNCHANGED <<host, desk, probe, globals, trial, variant, client, now, nextCall, req, stderr, uiSlot>>


\* The local popup call c waits on closes (showLocalPopup resolves): a confirm
\* popup gives a boolean, an input popup a text or null.
PopupClose ==
    /\ ~exited
    /\ ~TimerDue
    /\ \E c \in Calls :
          /\ pc[c] = "popup"
          /\ CASE popup[c] = "confirm" ->
                    /\ \E b \in BOOLEAN : sendResponse(c, ConfirmText(BoolV(b)))
                    /\ pc' = [pc EXCEPT ![c] = "done"]
                    /\ popup' = [popup EXCEPT ![c] = "none"]
               [] popup[c] = "input" ->
                    /\ \E a \in {NullV, StrV("V")} : sendResponse(c, InputText(a))
                    /\ pc' = [pc EXCEPT ![c] = "done"]
                    /\ popup' = [popup EXCEPT ![c] = "none"]
               [] popup[c] = "notify" ->
                    /\ sendResponse(c, <<"notification_sent">>)
                    /\ pc' = [pc EXCEPT ![c] = "done"]
                    /\ popup' = [popup EXCEPT ![c] = "none"]
               [] popup[c] = "ack" ->
                    /\ sendResponse(c, <<"acknowledged">>)
                    /\ pc' = [pc EXCEPT ![c] = "done"]
                    /\ popup' = [popup EXCEPT ![c] = "none"]
               [] popup[c] = "continue" ->
                    \E b \in BOOLEAN :
                       IF b
                       THEN /\ popup' = [popup EXCEPT ![c] = "instruction"]
                            /\ UNCHANGED <<pc, stdout, responses>>
                       ELSE /\ sendResponse(c, FallbackContinueText(FALSE, NullV))
                            /\ pc' = [pc EXCEPT ![c] = "done"]
                            /\ popup' = [popup EXCEPT ![c] = "none"]
               [] OTHER ->
                    /\ \E a \in {NullV, StrV("V")} : sendResponse(c, FallbackContinueText(TRUE, a))
                    /\ pc' = [pc EXCEPT ![c] = "done"]
                    /\ popup' = [popup EXCEPT ![c] = "none"]
    /\ last' = Other
    /\ UNCHANGED <<host, desk, probe, globals, trial, variant, client, now, nextCall, req, pendingRequests, waiter,
                   timers, stderr, uiSlot>>

\* What the dialog pages of SplitPanelProvider post as the answer.
PanelAnswers(type) ==
    IF type = "input" THEN {StrV("V")}
    ELSE {ContV(FALSE, "")} \cup {continueWithInstruction(box) : box \in {"", "next step"}}

\* SplitPanelProvider._handleMessage, case 'response'
PanelResponse ==
    /\ variant = "panel"
    /\ uiSlot # NoSlot
    /\ \E v \in PanelAnswers(uiSlot.type) :
          /\ handleWebviewResponse(uiSlot.id, v)
          /\ \E asked \in AskedUnder(uiSlot.id) : last' = Resolve(uiSlot.id, v, asked)
    /\ UNCHANGED <<host, desk, probe, globals, trial, variant, client, now, nextCall, req, timers, stderr, uiSlot>>

\* SplitPanelProvider._handleMessage, case 'cancel'
PanelCancel ==
    /\ variant = "panel"
    /\ uiSlot # NoSlot
    /\ handleWebviewResponse(uiSlot.id, NullV)
    /\ \E asked \in AskedUnder(uiSlot.id) : last' = Resolve(uiSlot.id, NullV, asked)
    /\ UNCHANGED <<host, desk, probe, globals, trial, variant, client, now, nextCall, req, timers, stderr, uiSlot>>

\* The panel is closed: onDidDispose forgets the request.
PanelDispose ==
    /\ variant = "panel"
    /\ uiSlot # NoSlot
    /\ uiSlot' = NoSlot
    /\ last' = Other
    /\ UNCHANGED <<host, desk, probe, globals, trial, variant, client, now, nextCall, req, pc, pendingRequests, waiter,
                   timers, popup, stdout, responses, stderr>>

\* ChatProvider: 'sendMessage' / 'respond' with a pending request:
\* handleUserResponse
ChatSendMessage ==
    /\ variant = "chat"
    /\ uiSlot # NoSlot
    /\ \E text \in UserTexts :
          /\ handleChatResponse(uiSlot.id, text, uiSlot.type)
          /\ \E asked \in AskedUnder(uiSlot.id) :
                last' = Resolve(uiSlot.id, StrV(text), asked)
    /\ uiSlot' = NoSlot
    /\ UNCHANGED <<host, desk, probe, globals, trial, variant, client, now, nextCall, req, timers, stderr>>

\* ChatProvider: 'startTask' with a pending request: handleStartTask
ChatStartTask ==
    /\ variant = "chat"
    /\ uiSlot # NoSlot
    /\ \E content \in {"", "V"} :
          LET v == IF uiSlot.type = "continue" THEN ContV(TRUE, content)
                   ELSE IF content = "" THEN StrV("USER ENTERED NOTHING") ELSE StrV(content)
          IN /\ handleWebviewResponse(uiSlot.id, v)
             /\ \E asked \in AskedUnder(uiSlot.id) : last' = Resolve(uiSlot.id, v, asked)
    /\ uiSlot' = NoSlot
    /\ UNCHANGED <<host, desk, probe, globals, trial, variant, client, now, nextCall, req, timers, stderr>>

\* The exported resolve entry points of serverManager.ts are called with an
\* id that is not stored (sidebarProvider.ts passes on whatever requestId its
\* page sends).
StrayWebviewResponse ==
    /\ variant \in HttpVariants
    /\ \E requestId \in KnownIds \ MapKeys(pendingRequests) :
          /\ handleWebviewResponse(requestId, NullV)
          /\ last' = Resolve(requestId, NullV, <<0, 0>>)
    /\ UNCHANGED <<host, desk, probe, globals, trial, variant, client, now, nextCall, req, timers, stderr, uiSlot>>

StrayChatResponse ==
    /\ variant \in HttpVariants
    /\ \E requestId \in KnownIds \ MapKeys(pendingRequests) :
          /\ handleChatResponse(requestId, "V", "input")
          /\ last' = Resolve(requestId, NullV, <<0, 0>>)
    /\ UNCHANGED <<host, desk, probe, globals, trial, variant, client, now, nextCall, req, timers, stderr, uiSlot>>

\* ChatProvider.handleEndChat
ChatEndChat ==
    /\ variant = "chat"
    /\ uiSlot # NoSlot
    /\ uiSlot' = NoSlot
    /\ last' = Cancel(StoredUnder(uiSlot.id))
    /\ UNCHANGED <<host, desk, probe, globals, trial, variant, client, now, nextCall, req, pc, pendingRequests, waiter,
                   timers, popup, stdout, responses, stderr>>

\* ChatProvider.handleEndSession
ChatEndSession ==
    /\ variant = "chat"
    /\ uiSlot # NoSlot
    /\ uiSlot' = NoSlot
    /\ last' = Cancel(StoredUnder(uiSlot.id))
    /\ UNCHANGED <<host, desk, probe, globals, trial, variant, client, now, nextCall, req, pc, pendingRequests, waiter,
                   timers, popup, stdout, responses, stderr>>

Next ==
    \/ Tick
    \/ ReceiveLine
    \/ ReceiveHttp
    \/ VSCodeResponse
    \/ TimerFire
    \/ PopupClose
    \/ PanelResponse
    \/ PanelCancel
    \/ PanelDispose
    \/ ChatSendMessage
    \/ ChatStartTask
    \/ StrayWebviewResponse
    \/ StrayChatResponse
    \/ ChatEndChat
    \/ ChatEndSession

Spec == Init /\ [][Next]_vars

\* The servers under protocol traffic.
DispatchInit ==
    /\ trial = NoTrial
    /\ HostUp
    /\ DeskIdle
    /\ variant \in Variants
    /\ client = "protocol"
    /\ now = 0
    /\ nextCall = 0
    /\ req = [c \in Calls |-> NoReq]
    /\ pc = [c \in Calls |-> "none"]
    /\ pendingRequests = <<>>
    /\ waiter = [w \in Waiters |-> NoWaiter]
    /\ timers = <<>>
    /\ popup = [c \in Calls |-> "none"]
    /\ stdout = NoLine
    /\ responses = [c \in Calls |-> 0]
    /\ stderr = <<>>
    /\ uiSlot = NoSlot
    /\ last = Other

DispatchSpec == DispatchInit /\ [][Next]_vars

\* ------------------------------------------------------ faults and teardown
\* process.on('SIGINT'): `process.exit(0)`. What the process held when it
\* exited stays in the state.
Sigint ==
    /\ variant \in StdioVariants
    /\ ~exited
    /\ exited' = TRUE
    /\ last' = Other
    /\ UNCHANGED <<desk, probe, globals, trial, variant, client, now, nextCall, req, pc, pendingRequests,
                   waiter, timers, popup, stdout, responses, stderr, uiSlot, mcpServer,
                   currentPort, servers, taken, restarts>>

\* The http.Server objects after `mcpServer.close()`: a listening server stops
\* listening; a server whose listen call is still looking up 'localhost' has
\* no handle to close ("closing").
Stopped ==
    IF mcpServer # 0
    THEN [servers EXCEPT ![mcpServer].state = IF @ = "binding" THEN "closing" ELSE "closed"]
    ELSE servers

\* stopServer() of serverManager.ts and of extension.ts: `mcpServer.close()`
\* and `mcpServer = null`. close() ends the listening; the connections that
\* are open stay open.
stopServer ==
    IF mcpServer # 0
    THEN /\ servers' = Stopped
         /\ mcpServer' = 0
    ELSE UNCHANGED <<mcpServer, servers>>

\* The command mcpService.stopServer (deactivate() calls stopServer too).
StopServer ==
    /\ variant \notin StdioVariants
    /\ stopServer
    /\ last' = Other
    /\ UNCHANGED <<desk, probe, globals, trial, variant, client, now, nextCall, req, pc, pendingRequests,
                   waiter, timers, popup, stdout, responses, stderr, uiSlot, exited,
                   currentPort, taken, restarts>>

\* Every dispatcher under faulty traffic, until it is torn down.
ServerInit ==
    /\ trial = NoTrial
    /\ HostUp
    /\ DeskIdle
    /\ variant \in Dispatchers
    /\ client = "faults"
    /\ now = 0
    /\ nextCall = 0
    /\ req = [c \in Calls |-> NoReq]
    /\ pc = [c \in Calls |-> "none"]
    /\ pendingRequests = <<>>
    /\ waiter = [w \in Waiters |-> NoWaiter]
    /\ timers = <<>>
    /\ popup = [c \in Calls |-> "none"]
    /\ stdout = NoLine
    /\ responses = [c \in Calls |-> 0]
    /\ stderr = <<>>
    /\ uiSlot = NoSlot
    /\ last = Other

ServerNext ==
    \/ Next
    \/ Sigint
    \/ StopServer

ServerSpec == ServerInit /\ [][ServerNext]_vars

\* ------------------------------------------------ starting the HTTP server
\* The ports that cannot be bound: those of other processes and those this
\* process listens on.
Busy(srv) == taken \cup {srv[s].port : s \in {t \in Servers : srv[t].state = "listening"}}

\* The first port from p on that listen() can bind: every EADDRINUSE makes
\* the error handler add one to the port and try again.
RECURSIVE FirstFree(_, _)
FirstFree(p, srv) == IF p \in Busy(srv) THEN FirstFree(p + 1, srv) ELSE p

\* An http.Server object nothing refers to any more can be made anew.
Spare(srv) == {s \in Servers : srv[s].state \in {"none", "closed", "failed"}}
Fresh(srv) == CHOOSE s \in Spare(srv) : \A t \in Spare(srv) : s <= t

\* startServer(port?) of serverManager.ts. listen(currentPort) without a host
\* binds at once and reports EADDRINUSE on the next tick, where the handler
\* runs `currentPort++; mcpServer = null; startServer()`: nothing else runs
\* before the server listens. port = 0 stands for a call without a port.
sm_startServer(port) ==
    IF mcpServer # 0
    THEN UNCHANGED <<mcpServer, currentPort, servers>>
    ELSE LET bound == FirstFree(IF port # 0 THEN port ELSE currentPort, servers) IN
         /\ currentPort' = bound
         /\ mcpServer' = Fresh(servers)
         /\ servers' = [servers EXCEPT ![Fresh(servers)] = [state |-> "listening",
                                                            port |-> bound]]

\* startServer() of extension.ts up to its await, with the servers srv and
\* the reference ref: listen(currentPort, 'localhost') first looks up the
\* host name, the server binds in a later turn.
ext_startServer(srv, ref) ==
    IF ref # 0
    THEN /\ servers' = srv
         /\ mcpServer' = ref
         /\ UNCHANGED currentPort
    ELSE /\ currentPort' = PORT
         /\ mcpServer' = Fresh(srv)
         /\ servers' = [srv EXCEPT ![Fresh(srv)] = [state |-> "binding", port |-> PORT]]

\* The commands mcpService.startServer of both extensions.
StartServer ==
    /\ variant \notin StdioVariants
    /\ Spare(servers) # {}
    /\ IF variant = "ext"
       THEN ext_startServer(servers, mcpServer)
       ELSE \E port \in {0, PORT} : sm_startServer(port)
    /\ UNCHANGED <<server, trial, desk, probe, globals, exited, taken, restarts>>

\* restartServer() of serverManager.ts: `stopServer(); setTimeout(() =>
\* startServer(), 1000)`; the restartServer message of extension.ts:
\* `stopServer(); await startServer()`.
RestartServer ==
    /\ variant \notin StdioVariants
    /\ IF variant = "ext"
       THEN /\ Spare(Stopped) # {}
            /\ ext_startServer(Stopped, 0)
            /\ UNCHANGED restarts
       ELSE /\ restarts < MaxServers
            /\ stopServer
            /\ restarts' = restarts + 1
            /\ UNCHANGED currentPort
    /\ UNCHANGED <<server, trial, desk, probe, globals, exited, taken>>

\* The timeout of restartServer() fires.
RestartTimer ==
    /\ variant \notin StdioVariants \cup {"ext"}
    /\ restarts > 0
    /\ Spare(servers) # {}
    /\ restarts' = restarts - 1
    /\ sm_startServer(0)
    /\ UNCHANGED <<server, trial, desk, probe, globals, exited, taken>>

\* extension.ts: the lookup of 'localhost' for a listen call of server s ends.
\* When close() was called in between, the runtime either drops the listen
\* call or goes on with it (proceed), depending on its version. The server
\* binds its port, or EADDRINUSE reaches the error handler, which runs
\* `currentPort++; mcpServer!.listen(currentPort, 'localhost')` on whatever
\* mcpServer refers to by then: a TypeError on null, ERR_SERVER_ALREADY_LISTEN
\* on a listening server, a second listen call on a server that is binding.
Lookup(s, proceed) ==
    /\ variant = "ext"
    /\ servers[s].state \in {"binding", "closing"}
    /\ proceed \/ servers[s].state = "closing"
    /\ IF ~proceed
       THEN /\ servers' = [servers EXCEPT ![s].state = "closed"]
            /\ UNCHANGED currentPort
       ELSE IF servers[s].port \notin Busy(servers)
       THEN /\ servers' = [servers EXCEPT ![s].state = "listening"]
            /\ UNCHANGED currentPort
       ELSE /\ currentPort' = currentPort + 1
            /\ IF mcpServer = 0 \/ servers[mcpServer].state = "listening"
               THEN servers' = [servers EXCEPT ![s].state = "failed"]
               ELSE \E port \in {servers[mcpServer].port, currentPort + 1} :
                       /\ mcpServer = s => port = currentPort + 1
                       /\ servers' = [[servers EXCEPT ![s].state = "failed"]
                                         EXCEPT ![mcpServer] = [state |-> "binding",
                                                                port |-> port]]
    /\ UNCHANGED <<server, trial, desk, probe, globals, exited, mcpServer, taken, restarts>>

\* No server was started yet; other processes hold some of the ports.
PortInit ==
    /\ trial = NoTrial
    /\ DeskIdle
    /\ exited = FALSE
    /\ mcpServer = 0
    /\ currentPort = PORT
    /\ servers = [s \in Servers |-> NoServer]
    /\ taken \in SUBSET {PORT, PORT + 1}
    /\ restarts = 0
    /\ variant \in Dispatchers \ StdioVariants
    /\ client = "faults"
    /\ now = 0
    /\ nextCall = 0
    /\ req = [c \in Calls |-> NoReq]
    /\ pc = [c \in Calls |-> "none"]
    /\ pendingRequests = <<>>
    /\ waiter = [w \in Waiters |-> NoWaiter]
    /\ timers = <<>>
    /\ popup = [c \in Calls |-> "none"]
    /\ stdout = NoLine
    /\ responses = [c \in Calls |-> 0]
    /\ stderr = <<>>
    /\ uiSlot = NoSlot
    /\ last = Other

PortNext ==
    \/ StartServer
    \/ StopServer
    \/ RestartServer
    \/ RestartTimer
    \/ \E s \in Servers : \E proceed \in BOOLEAN : Lookup(s, proceed)

\* The start, stop and restart commands of the HTTP servers in any order.
PortSpec == PortInit /\ [][PortNext]_vars

\* ------------------------------------------------- registry and router
\* Every name a registry lists or a router has a case for, and one more.
ToolNames ==
    UNION {{TOOLS(v)[i] : i \in 1..Len(TOOLS(v))} \cup Routable(v) : v \in Dispatchers}
        \cup {"no_such_tool"}

\* tools/list: the names of the result.
ListTools ==
    /\ probe' = [probe EXCEPT !.listed = TOOLS(variant)]
    /\ UNCHANGED <<server, trial, host, desk, globals>>

\* tools/call with the name n: whether handleToolCall has a case for it or
\* ends in the unknown-tool error of its default branch.
CallTool(n) ==
    LET thrown == Thrown(variant, CallReq(n, "none", "none")) IN
    /\ probe' = [probe EXCEPT !.name = n,
                              !.routed = IF Len(thrown) >= 2 /\ thrown[2] = "Unknown tool: "
                                         THEN "no" ELSE "yes"]
    /\ UNCHANGED <<server, trial, host, desk, globals>>

RegistryNext ==
    \/ ListTools
    \/ \E n \in ToolNames : CallTool(n)

\* The registry of every dispatcher listed, and every name called.
RegistrySpec == ServerInit /\ [][RegistryNext]_vars

\* ------------------------------------------- the Windows dialog back-end
\* What resolve() gets when no answer was read.
PopupDefault(type) == IF type = "confirm" THEN "false" ELSE "null"

\* What the powershell script writes with Out-File: the button of the
\* MessageBox, the text of the InputBox ("" when it was cancelled).
PsAnswers(type) == IF type = "confirm" THEN {"true", "false"} ELSE {"text", ""}

\* What handlePopupProcess resolves with when the file holds `result`:
\* `result === 'true'` for a confirm dialog, `result || null` for an input.
PopupResult(type, result) ==
    IF type = "confirm" THEN IF result = "true" THEN "true" ELSE "false"
    ELSE IF result = "" THEN "null" ELSE result

\* showWindowsPopup(title, message, type): the name of the temp file is made
\* from Date.now(), powershell is spawned.
showWindowsPopup(d, type) ==
    /\ dialogs[d].state = "none"
    /\ dialogs' = [dialogs EXCEPT ![d] = [state |-> "open", type |-> type, file |-> now,
                                          answer |-> "none", settled |-> "no"]]
    /\ UNCHANGED <<server, trial, host, probe, globals, files>>

\* The user answers the dialog and the script writes the result file.
PsWrite(d, answer) ==
    /\ dialogs[d].state = "open"
    /\ answer \in PsAnswers(dialogs[d].type)
    /\ files' = [files EXCEPT ![dialogs[d].file] = answer]
    /\ dialogs' = [dialogs EXCEPT ![d].state = "written", ![d].answer = answer]
    /\ UNCHANGED <<server, trial, host, probe, globals>>

\* proc.on('close') of handlePopupProcess. fault: which call of the try block
\* throws, "readFileSync", "unlinkSync" or "none".
PsClose(d, fault) ==
    LET dlg == dialogs[d]
        result == files[dlg.file] IN
    /\ dlg.state \in {"open", "written"}
    /\ IF result = "none"
       THEN \* fs.existsSync(tempFile) is false
            /\ fault = "none"
            /\ dialogs' = [dialogs EXCEPT ![d].state = "closed",
                                          ![d].settled = PopupDefault(dlg.type)]
            /\ UNCHANGED files
       ELSE IF fault = "none"
       THEN /\ files' = [files EXCEPT ![dlg.file] = "none"]
            /\ dialogs' = [dialogs EXCEPT ![d].state = "closed",
                                          ![d].settled = PopupResult(dlg.type, result)]
       ELSE \* catch (e): resolve with the default
            /\ dialogs' = [dialogs EXCEPT ![d].state = "closed",
                                          ![d].settled = PopupDefault(dlg.type)]
            /\ UNCHANGED files
    /\ UNCHANGED <<server, trial, host, probe, globals>>

\* proc.on('error'): powershell could not be spawned.
PsError(d) ==
    /\ dialogs[d].state = "open"
    /\ dialogs' = [dialogs EXCEPT ![d].state = "closed",
                                  ![d].settled = PopupDefault(dialogs[d].type)]
    /\ UNCHANGED <<server, trial, host, probe, globals, files>>

\* A millisecond passes.
DeskTick ==
    /\ now < MaxDialogs
    /\ now' = now + 1
    /\ UNCHANGED <<variant, client, nextCall, req, pc, pendingRequests, waiter, timers, popup,
                   stdout, responses, stderr, uiSlot, last>>
    /\ UNCHANGED <<trial, host, desk, probe, globals>>

\* The stdio server on Windows with no dialog open.
DeskInit ==
    /\ trial = NoTrial
    /\ HostUp
    /\ DeskIdle
    /\ variant = "stdio"
    /\ client = "agent"
    /\ now = 0
    /\ nextCall = 0
    /\ req = [c \in Calls |-> NoReq]
    /\ pc = [c \in Calls |-> "none"]
    /\ pendingRequests = <<>>
    /\ waiter = [w \in Waiters |-> NoWaiter]
    /\ timers = <<>>
    /\ popup = [c \in Calls |-> "none"]
    /\ stdout = NoLine
    /\ responses = [c \in Calls |-> 0]
    /\ stderr = <<>>
    /\ uiSlot = NoSlot
    /\ last = Other

DeskNext ==
    \/ \E d \in Dialogs : \E type \in {"confirm", "input"} : showWindowsPopup(d, type)
    \/ \E d \in Dialogs : \E answer \in {"true", "false", "text", ""} : PsWrite(d, answer)
    \/ \E d \in Dialogs : \E fault \in {"none", "readFileSync", "unlinkSync"} : PsClose(d, fault)
    \/ \E d \in Dialogs : PsError(d)
    \/ DeskTick

\* The local dialogs of the Windows back-end, each with its result file.
DeskSpec == DeskInit /\ [][DeskNext]_vars

\* ----------------------------------- pending command of the later revision
\* The pending commands delivered so far, by get_pending_command or as the
\* instruction of a windsurf_auto_mcp result.
Delivered == Len(fetched) + Cardinality({c \in Calls : auto[c].returned # NoCommand})

\* handleSetPendingCommand({command})
handleSetPendingCommand(cmd) ==
    /\ variant = "stdio2"
    /\ Delivered < MaxSets
    /\ pendingCommand' = Command(cmd, 1 + Delivered)
    /\ lastUserCommand' = cmd
    /\ UNCHANGED <<server, trial, host, desk, probe, auto, fetched, commandHistory, saved, got, extension>>

\* handleGetPendingCommand(): the pending command is returned and cleared.
handleGetPendingCommand ==
    /\ variant = "stdio2"
    /\ pendingCommand # NoCommand
    /\ fetched' = Append(fetched, pendingCommand)
    /\ pendingCommand' = NoCommand
    /\ UNCHANGED <<server, trial, host, desk, probe, lastUserCommand, auto, commandHistory,
                   saved, got, extension>>

\* handleWindsurfAutoMcp({reason, command}) up to its first await: the
\* command to record is the pending command, else the command argument, else
\* the last user command, else the completion message, and
\* callVSCodeCommand('mcpService.recordCascadeCommand', ...) is awaited.
handleWindsurfAutoMcp(c, command) ==
    /\ variant = "stdio2"
    /\ auto[c].at = "none"
    /\ \A d \in 1..(c - 1) : auto[d].at # "none"
    /\ auto' = [auto EXCEPT ![c] =
                   [NoAuto EXCEPT !.at = "recording",
                                  !.recorded = IF pendingCommand # NoCommand THEN pendingCommand
                                               ELSE IF command # "none" THEN Command(command, 0)
                                               ELSE IF lastUserCommand # "none"
                                               THEN Command(lastUserCommand, 0)
                                               ELSE Command("TASK DONE", 0)]]
    /\ UNCHANGED <<server, trial, host, desk, probe, pendingCommand, lastUserCommand, fetched,
                   commandHistory, saved, got, extension>>

\* handleWindsurfAutoMcp after `await callVSCodeCommand(...)` has ended, by
\* the collaborator's answer or by the timeout (catch (recordError) only
\* logs): a pending command is returned as the new instruction and cleared,
\* else the continue dialog is asked for.
AutoMcpRecorded(c) ==
    /\ auto[c].at = "recording"
    /\ IF pendingCommand # NoCommand
       THEN /\ auto' = [auto EXCEPT ![c].at = "done", ![c].returned = pendingCommand]
            /\ pendingCommand' = NoCommand
       ELSE /\ auto' = [auto EXCEPT ![c].at = "dialog"]
            /\ UNCHANGED pendingCommand
    /\ UNCHANGED <<server, trial, host, desk, probe, lastUserCommand, fetched, commandHistory,
                   saved, got, extension>>

\* handleWindsurfAutoMcp after the continue dialog: the result is made of the
\* answer, no pending command is returned.
AutoMcpAnswered(c) ==
    /\ auto[c].at = "dialog"
    /\ auto' = [auto EXCEPT ![c].at = "done"]
    /\ UNCHANGED <<server, trial, host, desk, probe, pendingCommand, lastUserCommand, fetched,
                   commandHistory, saved, got, extension>>

PendingNext ==
    \/ \E cmd \in Commands : handleSetPendingCommand(cmd)
    \/ handleGetPendingCommand
    \/ \E c \in Calls : \E command \in {"none", "cmdA"} : handleWindsurfAutoMcp(c, command)
    \/ \E c \in Calls : AutoMcpRecorded(c)
    \/ \E c \in Calls : AutoMcpAnswered(c)

\* The later stdio revision under set_pending_command, get_pending_command
\* and windsurf_auto_mcp requests in any order.
PendingInit == ServerInit /\ variant = "stdio2"
PendingSpec == PendingInit /\ [][PendingNext]_vars

\* --------------------------------------------------- command history
\* Array.prototype.slice(start, end) with end <= length; a negative start
\* counts from the end, and -0 is 0.
slice(arr, start, end) ==
    LET from == IF start < 0
                THEN (IF Len(arr) + start < 0 THEN 0 ELSE Len(arr) + start)
                ELSE (IF start > Len(arr) THEN Len(arr) ELSE start)
        to == IF end > Len(arr) THEN Len(arr) ELSE end
    IN SubSeq(arr, from + 1, to)

\* Keeps the first entries instead of the last.
addCommandToHistory_oldest(history, entry) ==
    LET pushed == Append(history, entry)
    IN IF Len(pushed) > HISTORY_CAP THEN slice(pushed, 0, HISTORY_CAP) ELSE pushed

\* addCommandToHistory of mcpTools.ts and the body of handleSaveCommandHistory
\* of index.js: push, then `commandHistory.slice(-100)` above 100 entries.
addCommandToHistory(history, entry) ==
    LET pushed == Append(history, entry)
    IN IF Len(pushed) > HISTORY_CAP THEN slice(pushed, 0 - HISTORY_CAP, Len(pushed))
       ELSE pushed

\* The servers with the history tools of index.js and of mcpTools.ts.
HistoryVariants == {"stdio"} \cup HttpVariants

\* handleSaveCommandHistory(args): the entry is the number of the save.
handleSaveCommandHistory ==
    /\ variant \in HistoryVariants
    /\ saved < MaxSaves
    /\ saved' = saved + 1
    /\ commandHistory' = addCommandToHistory(commandHistory, saved + 1)
    /\ UNCHANGED <<server, trial, host, desk, probe, pendingCommand, lastUserCommand, auto,
                   fetched, got, extension>>

\* handleGetCommandHistory({limit}) without a filter: index.js returns
\* `commandHistory.slice(-limit)`, mcpTools.ts `commandHistory.slice(0, limit)`.
handleGetCommandHistory(limit) ==
    /\ variant \in HistoryVariants
    /\ got' = [limit |-> limit, saved |-> saved,
               entries |-> IF variant = "stdio"
                           THEN slice(commandHistory, 0 - limit, Len(commandHistory))
                           ELSE slice(commandHistory, 0, limit)]
    /\ UNCHANGED <<server, trial, host, desk, probe, pendingCommand, lastUserCommand, auto,
                   fetched, commandHistory, saved, extension>>

HistoryNext ==
    \/ handleSaveCommandHistory
    \/ \E limit \in {0, 2, DEFAULT_LIMIT} : handleGetCommandHistory(limit)

\* The history tools under save and get requests in any order, from an empty
\* history.
HistoryInit == ServerInit /\ variant \in HistoryVariants
HistorySpec == HistoryInit /\ [][HistoryNext]_vars

\* ------------------------------------------ result texts of every producer
\* handleWindsurfAutoMcp of the later stdio revision, primary path.
AutoMcpText(v) ==
    IF WantsContinue(v)
    THEN IF HasInstruction(v)
         THEN <<"should_continue = true", "NEW INSTRUCTION: ", v.ni,
                "EXECUTE THEN windsurf_auto_mcp">>
         ELSE <<"should_continue = true", "WAIT FOR NEXT INSTRUCTION THEN windsurf_auto_mcp">>
    ELSE <<"should_continue = false", "USER ENDED">>

\* handleWindsurfAutoMcp, fallback path: `should_continue = ${result}`, with no
\* further text when the confirm popup says no.
AutoMcpFallbackText(confirmed, instr) ==
    IF confirmed
    THEN IF Truthy(instr) /\ Trim(instr.s) # ""
         THEN <<"should_continue = true", "NEW INSTRUCTION: ", instr.s,
                "EXECUTE THEN windsurf_auto_mcp">>
         ELSE <<"should_continue = true", "WAIT FOR NEXT INSTRUCTION THEN windsurf_auto_mcp">>
    ELSE <<"should_continue = false">>

\* handleWindsurfAutoMcp, catch (fallbackError).
AutoMcpExhaustedText == <<"should_continue = false", "CANNOT INTERACT">>

\* The resolve wrapper of handleAskContinue in extension.ts: it reads
\* value.instruction and writes no should_continue marker.
ExtContinueText(v) ==
    IF WantsContinue(v)
    THEN IF v.i # ""
         THEN <<"USER CHOSE CONTINUE.", "INSTRUCTION: ", v.i>>
         ELSE <<"USER CHOSE CONTINUE.">>
    ELSE <<"USER CHOSE TO END.">>

\* The resolve wrapper of handleAskUser in extension.ts (answers without
\* images): `typeof value === 'string' ? value : (value.text || '')`.
ExtInputText(v) ==
    IF v.t = "null" THEN <<"USER CANCELLED">>
    ELSE IF v.t = "str" /\ v.s # "" THEN <<"USER INPUT: ", v.s>>
    ELSE <<"USER SUBMITTED NOTHING">>

\* handleAskUser of index.js after the await, by dialog kind ("omitted": the
\* call has no type): `type === 'confirm' || type === 'input' || !type`
\* awaits the answer, any other type is acknowledged.
AskUserText(kind, v) ==
    CASE kind = "confirm" -> ConfirmText(v)
      [] kind \in {"input", "omitted"} -> InputText(v)
      [] OTHER -> <<"acknowledged">>

\* handleAskUser of index.js, catch (error): the local popup by dialog kind,
\* `type === 'confirm'`, `type === 'input'`, else the acknowledgement.
AskUserFallbackText(kind, confirmed, input) ==
    CASE kind = "confirm" -> ConfirmText(BoolV(confirmed))
      [] kind = "input" -> InputText(input)
      [] OTHER -> <<"acknowledged">>

\* What the user who gave answer a does in the local popups: the button of
\* the confirm popup and the text typed into the input popup (`output || null`).
PopupConfirm(a) ==
    CASE a.t = "obj" -> a.c
      [] a.t = "bool" -> a.b
      [] a.t = "str" -> a.s # ""
      [] OTHER -> FALSE
PopupInput(a) ==
    CASE a.t = "obj" -> IF a.ni # "" THEN StrV(a.ni) ELSE IF a.i # "" THEN StrV(a.i) ELSE NullV
      [] a.t = "str" -> IF a.s # "" THEN a ELSE NullV
      [] OTHER -> NullV

\* The answers of a trial, by dialog kind.
TrialAnswers(kind) ==
    IF kind = "continue"
    THEN {NullV, ContV(FALSE, ""), ContV(TRUE, ""), ContV(TRUE, " "), ContV(TRUE, "next step"),
          InstrV(TRUE, "next step"), StrV("yes"), StrV("V")}
    ELSE IF kind = "confirm"
    THEN {NullV, BoolV(TRUE), BoolV(FALSE), StrV("yes"), StrV("V")}
    ELSE IF kind = "box"
    THEN \* what the instruction box holds when the user chooses to continue
         {StrV(""), StrV(" "), StrV("next step")}
    ELSE {NullV, StrV("V"), StrV("yes"), StrV("")}

TextInit ==
    /\ \E kind \in {"continue", "confirm", "input", "info", "omitted", "box"} :
          \E a \in TrialAnswers(kind) :
          trial = [NoTrial EXCEPT !.kind = kind, !.answer = a]
    /\ HostUp
    /\ DeskIdle
    /\ variant = "stdio"
    /\ client = "agent"
    /\ now = 0
    /\ nextCall = 0
    /\ req = [c \in Calls |-> NoReq]
    /\ pc = [c \in Calls |-> "none"]
    /\ pendingRequests = <<>>
    /\ waiter = [w \in Waiters |-> NoWaiter]
    /\ timers = <<>>
    /\ popup = [c \in Calls |-> "none"]
    /\ stdout = NoLine
    /\ responses = [c \in Calls |-> 0]
    /\ stderr = <<>>
    /\ uiSlot = NoSlot
    /\ last = Other

\* Producer e runs on the answer of the trial and makes text.
Produce(e, text) ==
    /\ trial.out[e] = NotApplied
    /\ trial' = [trial EXCEPT !.out[e] = text]
    /\ UNCHANGED <<server, host, desk, probe, globals>>

\* index.js: handleAskContinue / handleAskUser, resumed by handleVSCodeResponse
\* with the answer, or by the timeout and then the local popups.
ApplyStdio ==
    LET a == trial.answer IN
    /\ trial.kind # "box"
    /\ IF trial.kind = "continue"
       THEN \/ Produce("handleAskContinue", ContinueText(a))
            \/ Produce("handleAskContinue/fallback",
                       FallbackContinueText(PopupConfirm(a), PopupInput(a)))
            \/ Produce("handleAskContinue/exhausted", ExhaustedContinueText)
       ELSE \/ Produce("handleAskUser", AskUserText(trial.kind, a))
            \/ Produce("handleAskUser/fallback",
                       AskUserFallbackText(trial.kind, PopupConfirm(a), PopupInput(a)))

\* The later stdio revision: handleWindsurfAutoMcp.
ApplyRevision ==
    LET a == trial.answer IN
    /\ trial.kind = "continue"
    /\ \/ Produce("handleWindsurfAutoMcp", AutoMcpText(a))
       \/ Produce("handleWindsurfAutoMcp/fallback",
                  AutoMcpFallbackText(PopupConfirm(a), PopupInput(a)))
       \/ Produce("handleWindsurfAutoMcp/exhausted", AutoMcpExhaustedText)

\* serverManager.ts: the two exported resolve entry points. handleChatResponse
\* takes the user's text (userResponse: string).
ApplyServerManager ==
    LET a == trial.answer IN
    /\ trial.kind \in {"continue", "confirm", "input"}
    /\ \/ Produce("handleWebviewResponse",
                  IF trial.kind = "continue" THEN ContinueText(a) ELSE WebviewInputText(a))
       \/ /\ a.t = "str"
          /\ Produce("handleChatResponse", ChatResult(a.s, trial.kind))

\* The user chooses to continue with the instruction box as it stands: the
\* page of SplitPanelProvider posts continueWithInstruction(), ChatProvider's
\* handleStartTask passes {continue: true, newInstruction: content.trim()};
\* handleWebviewResponse makes the result text of either.
ApplyPages ==
    LET box == trial.answer.s IN
    /\ trial.kind = "box"
    /\ \/ Produce("continueWithInstruction", ContinueText(continueWithInstruction(box)))
       \/ Produce("handleStartTask", ContinueText(ContV(TRUE, Trim(box))))

\* extension.ts: the resolve wrappers of handleAskContinue and of handleAskUser
\* (which stores a waiter for the input kind only).
ApplyExtension ==
    LET a == trial.answer IN
    \/ /\ trial.kind = "continue"
       /\ Produce("extension/handleAskContinue", ExtContinueText(a))
    \/ /\ trial.kind = "input"
       /\ Produce("extension/handleAskUser", ExtInputText(a))

TextNext ==
    \/ ApplyStdio
    \/ ApplyRevision
    \/ ApplyServerManager
    \/ ApplyExtension
    \/ ApplyPages

\* Every producer of result texts applied to every answer of a dialog.
TextSpec == TextInit /\ [][TextNext]_vars


\* ------------------------------------------ the dialog panel of extension.ts
\* What the user may have typed into the panel's text area.
Typed == {"", "next step"}

\* The last entry of the pendingRequests Map (entries are kept in insertion
\* order): `entries[entries.length - 1]`.
latestRequestId == extension.pendingRequests[Len(extension.pendingRequests)].id
Waiting(requestId) == {r \in {extension.pendingRequests[i] :
                                 i \in 1..Len(extension.pendingRequests)} : r.id = requestId}

\* showDialogPanel(requestId, type, ...): the panel is replaced and the
\* request is remembered.
showDialogPanel(requestId, type) ==
    [extension EXCEPT !.dialogPanel = [requestId |-> requestId, type |-> type],
                      !.currentDialogRequestId = requestId]

\* handleAskUser (type input) and handleAskContinue of extension.ts: the
\* panel is shown with the request's kind and the waiter is stored.
ext_handleAsk(c, kind) ==
    /\ variant = "ext"
    /\ extension.results[c] = NoResult
    /\ Waiting(c) = {}
    /\ \A d \in 1..(c - 1) : extension.results[d] # NoResult \/ Waiting(d) # {}
    /\ extension' = [showDialogPanel(c, kind) EXCEPT
                        !.pendingRequests = Append(@, [id |-> c, kind |-> kind])]
    /\ UNCHANGED <<server, trial, host, desk, probe, pendingCommand, lastUserCommand, auto,
                   fetched, commandHistory, saved, got>>

\* toggleDialog(), the command behind Ctrl+M: an open panel is closed, else
\* the latest pending request is shown in a panel of type 'continue'.
toggleDialog ==
    /\ variant = "ext"
    /\ \/ /\ extension.dialogPanel # NoPanel
          /\ extension' = [extension EXCEPT !.dialogPanel = NoPanel]
       \/ /\ extension.dialogPanel = NoPanel
          /\ extension.pendingRequests # <<>>
          /\ extension' = showDialogPanel(latestRequestId, "continue")
    /\ UNCHANGED <<server, trial, host, desk, probe, pendingCommand, lastUserCommand, auto,
                   fetched, commandHistory, saved, got>>

\* The sidebar message 'openContinueDialog'.
openContinueDialog ==
    /\ variant = "ext"
    /\ extension.pendingRequests # <<>>
    /\ extension' = showDialogPanel(latestRequestId, "continue")
    /\ UNCHANGED <<server, trial, host, desk, probe, pendingCommand, lastUserCommand, auto,
                   fetched, commandHistory, saved, got>>

\* The user closes the panel: onDidDispose keeps currentDialogRequestId.
DisposeDialog ==
    /\ variant = "ext"
    /\ extension.dialogPanel # NoPanel
    /\ extension' = [extension EXCEPT !.dialogPanel = NoPanel]
    /\ UNCHANGED <<server, trial, host, desk, probe, pendingCommand, lastUserCommand, auto,
                   fetched, commandHistory, saved, got>>

\* submitResponse(confirm) of the panel's page: a 'continue' panel posts
\* {continue, instruction}, an 'input' panel {text} (read as its text by the
\* wrapper) or null.
submitted(type, confirm, input) ==
    IF type = "continue" THEN InstrV(confirm, input)
    ELSE IF confirm THEN StrV(input) ELSE NullV

\* The panel's 'response' message: handleWebviewResponse(requestId, value)
\* runs the waiter's resolve wrapper, then the panel is disposed.
submitResponse(confirm, input) ==
    /\ variant = "ext"
    /\ extension.dialogPanel # NoPanel
    /\ LET id == extension.dialogPanel.requestId
           v == submitted(extension.dialogPanel.type, confirm, input)
           closed == [extension EXCEPT !.dialogPanel = NoPanel, !.currentDialogRequestId = 0]
       IN extension' =
             IF Waiting(id) = {} THEN closed
             ELSE LET kind == (CHOOSE r \in Waiting(id) : TRUE).kind
                  IN [closed EXCEPT
                         !.pendingRequests = SelectSeq(@, LAMBDA r : r.id # id),
                         !.results[id] = [kind |-> kind, input |-> input,
                                          text |-> IF kind = "continue"
                                                   THEN ExtContinueText(v)
                                                   ELSE ExtInputText(v)]]
    /\ UNCHANGED <<server, trial, host, desk, probe, pendingCommand, lastUserCommand, auto,
                   fetched, commandHistory, saved, got>>

DialogNext ==
    \/ \E c \in Calls : \E kind \in {"input", "continue"} : ext_handleAsk(c, kind)
    \/ toggleDialog
    \/ openContinueDialog
    \/ DisposeDialog
    \/ \E confirm \in BOOLEAN : \E input \in Typed : submitResponse(confirm, input)

\* extension.ts under ask_user and ask_continue calls, with the user closing,
\* reopening and answering the dialog panel.
DialogInit == ServerInit /\ variant = "ext"
DialogSpec == DialogInit /\ [][DialogNext]_vars


\* ============================================================== properties
\* What a step leaves alone when it has no effect on the broker: the table,
\* every waiter's state, every handler's position and both output streams.
NoEffect ==
    /\ UNCHANGED <<pendingRequests, pc, popup, stdout, responses, stderr>>
    /\ \A w \in Waiters : waiter'[w].state = waiter[w].state

\* C1: settlement is exactly-once: no caller is resumed more than once, and a
\* resolve call naming the id of a waiter that is already settled changes
\* nothing.
C1_ExactlyOnce ==
    [][/\ \A w \in Waiters : waiter'[w].resumed <= 1
       /\ (/\ last'.op = "resolve"
           /\ last'.hit
           /\ \E a \in Waiters : /\ waiter[a].state \in Settled
                                 /\ waiter[a].id = waiter[last'.w].id)
          => NoEffect]_vars

\* C2: no two outstanding waiters are stored under the same requestId.
C2_UniqueIds ==
    \A w1, w2 \in Waiters :
        (w1 # w2 /\ waiter[w1].state = "pending" /\ waiter[w2].state = "pending")
        => waiter[w1].id # waiter[w2].id

\* C3: once a waiter is settled by a resolve call, the later run of its
\* timeout is a no-op: it leaves the table and every other waiter alone.
C3_LateTimeoutNoOp ==
    [][(last'.op = "timer" /\ waiter[last'.w].state = "fulfilled") => NoEffect]_vars

\* C4: a waiter that is never resolved is failed by its timeout, not before
\* the deadline, and is removed from the table in that step.
C4_TimeoutFails ==
    [][\A w \in Waiters :
          /\ (last'.op = "timer" /\ last'.w = w /\ waiter[w].state = "pending")
             => (/\ waiter'[w].state = "rejected"
                 /\ ~MapHas(pendingRequests', waiter[w].id))
          /\ (waiter[w].state = "pending" /\ waiter'[w].state = "rejected")
             => now >= waiter[w].createdAt + TIMEOUT]_vars

\* C5: a resolve call naming an id that is not in the table (never stored, or
\* already removed) leaves the table, every waiter and every handler unchanged.
C5_UnknownIdNoOp ==
    [][(last'.op = "resolve" /\ ~last'.hit) => (NoEffect /\ UNCHANGED timers)]_vars

\* C5 happens: a resolve call missed while another waiter was outstanding and
\* an earlier waiter had been settled and removed.
C5_Witness ==
    /\ last.op = "resolve"
    /\ ~last.hit
    /\ pendingRequests # <<>>
    /\ \E w \in Waiters : waiter[w].state \in Settled

\* C6: with two waiters outstanding in the HTTP server, each of them can be
\* answered by the UI provider: the provider holds the id of each.
C6_EachAddressable ==
    \A w1, w2 \in Waiters :
        (/\ variant \in HttpVariants
         /\ w1 # w2
         /\ waiter[w1].state = "pending"
         /\ waiter[w2].state = "pending"
         /\ uiSlot # NoSlot)
        => uiSlot.id = waiter[w1].id

\* C7: every waiter, in every variant, gets a timeout scheduled when it is
\* created.
C7_TimeoutScheduled ==
    [][\A w \in Waiters :
          (waiter[w].state = "none" /\ waiter'[w].state = "pending")
          => \E i \in 1..Len(timers') : timers'[i] = w]_vars

\* C8: an explicit cancel of a call whose waiter is outstanding settles the
\* waiter and removes it from the table.
C8_CancelSettles ==
    [][(/\ last'.op = "cancel"
        /\ last'.w # <<0, 0>>
        /\ waiter[last'.w].state = "pending")
       => (/\ waiter'[last'.w].state # "pending"
           /\ ~MapHas(pendingRequests', waiter[last'.w].id))]_vars

\* C9: a request is dispatched in the step it is received, whatever handlers
\* are suspended: tools/list is answered at once, a tool call reaches its
\* await.
C9_DispatchNotBlocked ==
    [][\A c \in Calls :
          (variant \in StdioVariants /\ req[c] = NoReq /\ req'[c] # NoReq)
          => /\ pc'[c] \in {"waiting", "done"}
             /\ req'[c] = ListReq => (responses'[c] = 1 /\ stdout'.id = c)]_vars

\* C9 happens: tools/list, received after an ask_user call that is still
\* suspended, has its response while ask_user has none.
C9_Witness ==
    \E c1, c2 \in Calls :
        /\ c1 < c2
        /\ req[c1].tool = "ask_user"
        /\ pc[c1] = "waiting"
        /\ responses[c1] = 0
        /\ req[c2] = ListReq
        /\ responses[c2] = 1

\* C10: no tool call whose waiter timed out is answered with a JSON-RPC error.
C10_TimeoutNotAnError ==
    \A c \in Calls :
        (stdout.id = c /\ waiter[<<c, 1>>].state = "rejected") => stdout.kind # "error"

\* The tools that collect an answer through the fallback dialog resolver.
AskTools == {"ask_user", "ask_continue"}

\* The timeout of call c failed its primary attempt and the call ended in the
\* same step: the fallback dialog failed at once (showLocalPopup threw).
FallbackFailed(c) ==
    /\ last'.op = "timer"
    /\ last'.w = <<c, 1>>
    /\ pc[c] = "waiting"
    /\ pc'[c] = "done"

\* C11: when the primary request failed and the fallback dialog failed too
\* (showLocalPopup threw), the call is answered in that step with a result,
\* never an error, that holds the conservative default: false for a confirm
\* and for ask_continue, the empty text for a free-text input.
C11_FallbackDefault ==
    [][\A c \in Calls :
          (req[c].tool \in AskTools /\ FallbackFailed(c))
          => /\ responses'[c] = responses[c] + 1
             /\ stdout'.id = c
             /\ stdout'.kind = "result"
             /\ (req[c].tool = "ask_user" /\ req[c].type = "confirm")
                   => stdout'.text = <<"false">>
             /\ (req[c].tool = "ask_user" /\ req[c].type = "input")
                   => stdout'.text = <<"">>
             /\ req[c].tool = "ask_continue"
                   => Head(stdout'.text) = "RESULT: should_continue=false"]_vars

\* C12: per request the resolver goes PRIMARY_ATTEMPT -> DONE when the primary
\* attempt is answered (no local dialog is opened), PRIMARY_ATTEMPT ->
\* FALLBACK_ATTEMPT only when the primary attempt failed, never back from the
\* fallback to a new attempt, and it ends with a result (DONE or
\* DONE_WITH_DEFAULT).
C12_ResolverStates ==
    [][\A c \in Calls :
          req[c].tool \in AskTools
          => /\ (waiter[<<c, 1>>].state = "pending" /\ waiter'[<<c, 1>>].state = "fulfilled")
                   => (pc'[c] = "done" /\ popup'[c] = "none")
             /\ (pc[c] # "popup" /\ pc'[c] = "popup")
                   => (pc[c] = "waiting" /\ waiter'[<<c, 1>>].state = "rejected")
             /\ pc[c] = "popup" => pc'[c] \in {"popup", "done"}
             /\ pc[c] = "done" => pc'[c] = "done"
             /\ (pc[c] # "done" /\ pc'[c] = "done")
                   => (stdout'.id = c /\ stdout'.kind = "result")]_vars

\* The text was made for the trial by producer e.
Applied(e) == trial.out[e] # NotApplied

\* The marker token with its boolean, as index.js writes it.
TrueMarker == "RESULT: should_continue=true"
FalseMarker == "RESULT: should_continue=false"

\* The Continue Decision a caller reads from a result text: the marker, then
\* the instruction block if there is one.
End == [d |-> "END", instruction |-> ""]
Idle == [d |-> "CONTINUE_IDLE", instruction |-> ""]
WithInstruction(str) == [d |-> "CONTINUE_WITH_INSTRUCTION", instruction |-> str]
Unreadable == [d |-> "NONE", instruction |-> ""]
Decision(text) ==
    IF Head(text) = FalseMarker THEN End
    ELSE IF Head(text) # TrueMarker THEN Unreadable
    ELSE IF Len(text) >= 3 /\ text[2] = "NEW INSTRUCTION: " THEN WithInstruction(text[3])
    ELSE Idle

\* str is part of the text as it stands.
Contains(text, str) == \E n \in 1..Len(text) : text[n] = str

C14_ScenarioC ==
    \A e \in {"handleAskContinue", "handleWebviewResponse", "extension/handleAskContinue"} :
        (trial.kind = "continue" /\ trial.answer = InstrV(TRUE, "next step") /\ Applied(e))
        => /\ Decision(trial.out[e]) = WithInstruction("next step")
           /\ Head(trial.out[e]) = TrueMarker
           /\ Contains(trial.out[e], "next step")

\* C15: every result text of the continue tool, on the primary, fallback and
\* fallback-exhausted paths, through either resolve entry point, in the stdio
\* server, its later revision and serverManager.ts, starts with the same
\* marker token followed by the boolean.
C15_OneMarker ==
    \A e \in ContinueProducers \ {"extension/handleAskContinue"} :
        (trial.kind = "continue" /\ Applied(e))
        => Head(trial.out[e]) \in {TrueMarker, FalseMarker}

\* C17: a confirm dialog answered true yields the result "confirmed", an
\* answer of false or no answer yields another result, and every resolve
\* entry point makes the same result of the same answer.
C17_ConfirmMapping ==
    \A e1, e2 \in {"handleAskUser", "handleWebviewResponse", "handleChatResponse"} :
        (trial.kind = "confirm" /\ Applied(e1) /\ Applied(e2))
        => /\ trial.out[e1] = trial.out[e2]
           /\ trial.answer = BoolV(TRUE) => trial.out[e1] = <<"confirmed">>
           /\ trial.answer \in {BoolV(FALSE), NullV} => trial.out[e1] # <<"confirmed">>

\* C16: when a resolve entry point is called with a text V given in the
\* dialog of a free-text ask_user, the call that opened the dialog is answered
\* in that step with a result holding V, and no other call is answered.
C16_RoundTrip ==
    [][\A w \in Waiters : \A c \in Calls :
          (/\ last'.op = "resolve"
           /\ last'.hit
           /\ last'.for = w
           /\ w[1] = c
           /\ last'.v # ""
           /\ req[c].tool = "ask_user"
           /\ req[c].type = "input")
          => /\ responses'[c] = responses[c] + 1
             /\ stdout'.id = c
             /\ stdout'.kind = "result"
             /\ Contains(stdout'.text, last'.v)
             /\ \A d \in Calls \ {c} : responses'[d] = responses[d]]_vars

\* The methods that are answered.
Answered == {"initialize", "tools/list", "tools/call"}

C19_NoResponse ==
    \A c \in Calls :
        req[c].method \in {"initialized", "notifications/cancelled"} => responses[c] = 0

\* C20: for a request without an id, whatever its method, the stdio
\* dispatcher writes nothing to the response stream.
C20_NotificationSilent ==
    \A c \in Calls :
        (variant \in StdioVariants /\ req[c] # NoReq /\ ~req[c].hasId) => responses[c] = 0

\* C21: an unknown method with an id is answered once, with error -32601 and
\* the id; without an id it is not answered; in every dispatcher.
C21_UnknownMethod ==
    [][\A c \in Calls :
          /\ (req[c] = NoReq /\ req'[c].line = "request"
                /\ req'[c].method = UnknownMethodReq.method)
             => IF req'[c].hasId
                THEN /\ responses'[c] = 1
                     /\ stdout'.id = c
                     /\ stdout'.kind = "error"
                     /\ stdout'.code = 0 - 32601
                ELSE /\ responses'[c] = 0
                     /\ stdout' = stdout
          /\ req[c].method = UnknownMethodReq.method => responses'[c] = responses[c]]_vars

\* The handler of call c throws in this step: handleToolCall throws as the
\* request arrives (no params, unregistered name, missing argument, the popup
\* of handleNotify), or the handler throws after its waiter timed out
\* (handleRecordCascadeCommand, the fallback popup of handleAskUser).
HandlerThrew(c) ==
    \/ /\ pc[c] = "none"
       /\ pc'[c] = "done"
       /\ req'[c].method = "tools/call"
       /\ \/ Thrown(variant, req'[c]) # <<>>
          \/ variant \in StdioVariants /\ req'[c].tool = "notify"
    \/ /\ FallbackFailed(c)
       /\ req[c].tool \in {"ask_user", "record_cascade_command"}

C24_MalformedLine ==
    [][\A c \in Calls :
          /\ (variant \in StdioVariants /\ req[c] = NoReq /\ req'[c].line # "request")
             => /\ UNCHANGED <<stdout, responses, pendingRequests, waiter, timers, popup,
                               stderr, exited>>
                /\ \A d \in Calls \ {c} : pc'[d] = pc[d]
          /\ (/\ variant \in StdioVariants
              /\ req[c] = NoReq
              /\ req'[c] # NoReq
              /\ req'[c].line = "request"
              /\ \E d \in 1..(c - 1) : req[d].line # "request")
             => /\ pc'[c] \in {"waiting", "popup", "done"}
                /\ req'[c] = ListReq => (responses'[c] = 1 /\ stdout' = Result(c, TOOLS(variant)))
                /\ req'[c].tool = "ask_user" => pc'[c] = "waiting"]_vars

\* C24 happens: the first line was no JSON, nothing was written for it, and
\* the tools/list on the second line has its response.
C24_Witness ==
    /\ variant \in StdioVariants
    /\ MaxCalls >= 2
    /\ req[1] = MalformedLine("not json")
    /\ responses[1] = 0
    /\ req[2] = ListReq
    /\ stdout = Result(2, TOOLS(variant))

\* C25: in the stdio servers the RPC response stream holds only responses,
\* each to a request that was received, carrying its id when it has one; the
\* notifications for the collaborator are on the out-of-band stream, one for
\* each waiter.
C25_DistinctStreams ==
    variant \in StdioVariants
    => /\ \/ stdout = NoLine
          \/ /\ stdout.kind \in {"result", "error"}
             /\ \E c \in 1..nextCall :
                   /\ responses[c] > 0
                   /\ stdout.id = IF req[c].hasId THEN c ELSE NoId
       /\ \A w \in Waiters :
             waiter[w].state # "none"
             => \E i \in 1..Len(stderr) :
                   stderr[i] = [command |-> waiter[w].command, requestId |-> waiter[w].id]
       /\ Len(stderr) = Cardinality({w \in Waiters : waiter[w].state # "none"})

\* C25 happens: a notification has gone out for a waiter and a response to
\* another request is on the response stream.
C25_Witness ==
    /\ variant \in StdioVariants
    /\ Len(stderr) > 0
    /\ stdout.kind = "result"
    /\ \E w \in Waiters : waiter[w].state = "pending"

\* C27: a step of the handler of a notify call leaves the pending-waiter
\* table, the waiters and the timeouts as they were and is no resolve call
\* and no timeout; a notify call never waits for the collaborator.
C27_NotifyNoWaiter ==
    [][\A c \in Calls :
          (req'[c].method = "tools/call" /\ req'[c].tool = "notify")
          => /\ pc'[c] # "waiting"
             /\ waiter'[<<c, 1>>].state = "none"
             /\ pc'[c] # pc[c]
                   => /\ UNCHANGED <<pendingRequests, waiter, timers>>
                      /\ last'.op \notin {"resolve", "timer"}]_vars

\* C27 happens: a notify call was answered while the waiter of another call
\* stayed in the table.
C27_Witness ==
    \E c \in Calls :
        /\ req[c] = CallReq("notify", "none", "none")
        /\ pc[c] = "done"
        /\ stdout.id = c
        /\ stdout.kind = "result"
        /\ pendingRequests # <<>>

\* C29: once the stdio process has exited, or stopServer has run, no waiter is
\* in the table and no tool call is left without its response.
C29_TeardownFlush ==
    (exited \/ mcpServer = 0)
    => /\ pendingRequests = <<>>
       /\ \A c \in Calls : pc[c] \notin {"waiting", "popup"}

\* C26: the names tools/list returns are pairwise distinct, and a name is
\* routed by tools/call exactly when tools/list returns it, in every
\* dispatcher.
C26_RegistryRouter ==
    /\ \A i, j \in 1..Len(probe.listed) : i # j => probe.listed[i] # probe.listed[j]
    /\ (probe.listed # <<>> /\ probe.name # "none")
       => (probe.routed = "yes"
             <=> \E i \in 1..Len(probe.listed) : probe.listed[i] = probe.name)

\* C28: once the promise of showWindowsPopup is settled, the result file of
\* the dialog does not exist.
C28_TempFileReleased ==
    \A d \in Dialogs :
        dialogs[d].settled # "no" => files[dialogs[d].file] = "none"

\* C30: at most one server instance is binding or listening, it is the one
\* mcpServer refers to, and once it listens its port is the first port from
\* the configured one on that no other process holds, which is also what
\* getCurrentPort() reports.
C30_OneServer ==
    /\ Cardinality({s \in Servers : servers[s].state \in {"binding", "listening"}}) <= 1
    /\ \A s \in Servers : servers[s].state = "listening" => mcpServer = s
    /\ (mcpServer # 0 /\ servers[mcpServer].state = "listening")
       => /\ servers[mcpServer].port = FirstFree(PORT, [s \in Servers |-> NoServer])
          /\ currentPort = servers[mcpServer].port

\* C31: when the user chooses to continue and the instruction box is empty or
\* blank, the answer the page posts makes handleWebviewResponse decide
\* CONTINUE_IDLE, in the split panel and in the chat view.
C31_IdleReachable ==
    \A e \in PageProducers :
        (trial.kind = "box" /\ Trim(trial.answer.s) = "" /\ Applied(e))
        => Decision(trial.out[e]) = Idle

\* The shape of a result text of ask_user.
Shape(text) ==
    IF text \in {<<"true">>, <<"false">>} THEN "boolean"
    ELSE IF text = <<"acknowledged">> THEN "acknowledgement"
    ELSE "plain text"

\* C32: the result of ask_user in index.js has the shape of the declared
\* dialog kind, plain text for input, boolean text for confirm, the
\* acknowledgement for info, and the same shape on the primary path and on
\* the fallback path, also for a call without a type.
C32_ShapeByKind ==
    (/\ trial.kind \in {"input", "confirm", "info", "omitted"}
     /\ Applied("handleAskUser")
     /\ Applied("handleAskUser/fallback"))
    => /\ Shape(trial.out["handleAskUser"]) = Shape(trial.out["handleAskUser/fallback"])
       /\ trial.kind = "input" => Shape(trial.out["handleAskUser"]) = "plain text"
       /\ trial.kind = "confirm" => Shape(trial.out["handleAskUser"]) = "boolean"
       /\ trial.kind = "info" => Shape(trial.out["handleAskUser"]) = "acknowledgement"

\* What a result of the continue tool tells the caller: the marker with its
\* boolean in index.js and serverManager.ts; extension.ts writes no marker,
\* only its sentence.
SaysContinue(text) == Head(text) \in {TrueMarker, "USER CHOSE CONTINUE."}
SaysEnd(text) == Head(text) \in {FalseMarker, "USER CHOSE TO END."}

C34_RecordedIsReturned ==
    /\ \A c \in Calls :
          auto[c].returned # NoCommand => auto[c].recorded = auto[c].returned
    /\ \A c, d \in Calls :
          (c # d /\ auto[c].returned # NoCommand) => auto[c].returned # auto[d].returned
    /\ \A c \in Calls : \A i \in 1..Len(fetched) : auto[c].returned # fetched[i]
    /\ \A i, j \in 1..Len(fetched) : i # j => fetched[i] # fetched[j]

\* C35: a panel that is open for a request still pending has the kind of
\* the request that created the waiter, and a free-text ask_user waiter
\* answered by submitting a text holds that text in its result.
C35_ReopenedKind ==
    /\ \A r \in Waiting(extension.dialogPanel.requestId) :
          extension.dialogPanel.type = r.kind
    /\ \A c \in Calls :
          LET res == extension.results[c]
          IN (res.kind = "input" /\ res.input # "" /\ res.text # <<"USER CANCELLED">>)
                => \E i \in 1..Len(res.text) : res.text[i] = res.input

\* C36: dialogs in flight together do not interfere: a settled
\* showWindowsPopup call was resolved with the answer given in its own dialog
\* (or with the default, when it got no answer or its file could not be
\* read), and the result file of an answered dialog is there until its own
\* close handler has run.
C36_OwnAnswer ==
    \A d \in Dialogs :
        /\ dialogs[d].settled # "no"
              => dialogs[d].settled \in
                    {PopupDefault(dialogs[d].type)}
                       \cup {PopupResult(dialogs[d].type, dialogs[d].answer) :
                                x \in {dialogs[d].answer} \ {"none"}}
        /\ dialogs[d].state = "written" => files[dialogs[d].file] # "none"

\* The k entries saved last when n entries were saved: n - k + 1 .. n.
LastSaved(n, k) == [i \in 1..k |-> n - k + i]
Least(a, b) == IF a < b THEN a ELSE b

\* C37: get_command_history with limit L >= 0 returns at most L entries, the
\* L most recently saved ones (all that are stored when fewer are stored).
C37_LimitNewest ==
    got.limit >= 0
       => /\ Len(got.entries) <= got.limit
          /\ got.entries = LastSaved(got.saved, Least(got.limit, Least(got.saved, HISTORY_CAP)))

====
